---- MODULE Spec2Model ----
(***************************************************************************)
(* Model of the ESO addon manager core (src-tauri/src):                    *)
(*   - services/resolver.rs : dependency resolution                        *)
(*   - utils/version.rs     : version parsing, ordering, normalisation     *)
(*   - utils/zip.rs         : archive extraction with path remapping       *)
(* Strings are sequences of one-character strings, so that the string      *)
(* operations of the code (to_lowercase, split, starts_with, find, parse)  *)
(* are computed rather than assumed.                                       *)
(***************************************************************************)
EXTENDS Integers, Sequences, FiniteSets, TLC

\* ------------------------------------------------------------------------
\* Bounds of the model
\* ------------------------------------------------------------------------
\* resolver: longest required_dependencies list of a catalog entry
MaxDeps == 2
\* resolver: size of an input, counted as dependency edges + entries without
\* a release + installed records
MaxInput == 3
\* resolver: calls of resolve_dependencies on one input
MaxCalls == 2

\* ------------------------------------------------------------------------
\* Strings
\* ------------------------------------------------------------------------
UpperLetters == <<"A", "B", "C", "D", "E", "F", "G", "H", "I", "J", "K", "L", "M",
                  "N", "O", "P", "Q", "R", "S", "T", "U", "V", "W", "X", "Y", "Z">>

LowerLetters == <<"a", "b", "c", "d", "e", "f", "g", "h", "i", "j", "k", "l", "m",
                  "n", "o", "p", "q", "r", "s", "t", "u", "v", "w", "x", "y", "z">>

\* char::to_lowercase on the ASCII range
LowerChar(c) ==
    IF \E i \in 1..26 : UpperLetters[i] = c
    THEN LowerLetters[CHOOSE i \in 1..26 : UpperLetters[i] = c]
    ELSE c

\* str::to_lowercase
to_lowercase(s) == [i \in 1..Len(s) |-> LowerChar(s[i])]

\* str::starts_with
starts_with(s, p) == Len(p) <= Len(s) /\ SubSeq(s, 1, Len(p)) = p

\* str::ends_with
ends_with(s, p) == Len(p) <= Len(s) /\ SubSeq(s, Len(s) - Len(p) + 1, Len(s)) = p

\* str::contains
contains(s, p) ==
    \E i \in 1..(Len(s) - Len(p) + 1) : SubSeq(s, i, i + Len(p) - 1) = p

\* str::find(char): index of the first occurrence, 0 when there is none
find(s, c) ==
    IF \E i \in 1..Len(s) : s[i] = c
    THEN CHOOSE i \in 1..Len(s) : s[i] = c /\ \A j \in 1..(i - 1) : s[j] # c
    ELSE 0

\* s.split(c).next(): the text before the first c, the whole of s without one
split_first(s, c) == IF find(s, c) = 0 THEN s ELSE SubSeq(s, 1, find(s, c) - 1)

\* The characters from the space (32) to z (122) in the order of their codes
Ascii ==
    <<" ", "!", "dquote", "#", "$", "%", "&", "apostrophe", "(", ")", "*", "+", ",", "-", ".", "/",
      "0", "1", "2", "3", "4", "5", "6", "7", "8", "9", ":", ";", "<", "=", ">", "?",
      "@", "A", "B", "C", "D", "E", "F", "G", "H", "I", "J", "K", "L", "M", "N", "O",
      "P", "Q", "R", "S", "T", "U", "V", "W", "X", "Y", "Z", "[", "backslash", "]", "^", "_",
      "backtick", "a", "b", "c", "d", "e", "f", "g", "h", "i", "j", "k", "l", "m", "n", "o",
      "p", "q", "r", "s", "t", "u", "v", "w", "x", "y", "z">>

\* The byte a character is stored as
Code(c) == 31 + CHOOSE i \in 1..Len(Ascii) : Ascii[i] = c

\* Ordering
Less == "Less"

Equal == "Equal"

Greater == "Greater"

\* Ord::cmp on integers
cmp_int(a, b) == IF a < b THEN Less ELSE IF a > b THEN Greater ELSE Equal

\* Ord::cmp on String: byte by byte, a proper prefix is less
RECURSIVE cmp_str(_, _)
cmp_str(a, b) ==
    IF a = <<>> /\ b = <<>> THEN Equal
    ELSE IF a = <<>> THEN Less
    ELSE IF b = <<>> THEN Greater
    ELSE IF Code(Head(a)) # Code(Head(b)) THEN cmp_int(Code(Head(a)), Code(Head(b)))
    ELSE cmp_str(Tail(a), Tail(b))

\* str::trim, for the whitespace character " "
RECURSIVE trim_start(_)
trim_start(s) == IF s # <<>> /\ Head(s) = " " THEN trim_start(Tail(s)) ELSE s

RECURSIVE trim_end(_)
trim_end(s) ==
    IF s # <<>> /\ s[Len(s)] = " " THEN trim_end(SubSeq(s, 1, Len(s) - 1)) ELSE s

trim(s) == trim_end(trim_start(s))

\* str::split(c), all parts
RECURSIVE split(_, _)
split(s, c) ==
    IF find(s, c) = 0 THEN <<s>>
    ELSE <<SubSeq(s, 1, find(s, c) - 1)>> \o split(SubSeq(s, find(s, c) + 1, Len(s)), c)

Digits == <<"0", "1", "2", "3", "4", "5", "6", "7", "8", "9">>

IsDigit(c) == \E i \in 1..10 : Digits[i] = c

DigitValue(c) == (CHOOSE i \in 1..10 : Digits[i] = c) - 1

RECURSIVE DecimalValue(_)
DecimalValue(s) ==
    IF s = <<>> THEN 0 ELSE 10 * DecimalValue(SubSeq(s, 1, Len(s) - 1)) + DigitValue(s[Len(s)])

\* u32::MAX, in decimal digits
U32MaxDigits == <<"4", "2", "9", "4", "9", "6", "7", "2", "9", "5">>

RECURSIVE strip_zeros(_)
strip_zeros(s) == IF Len(s) > 1 /\ Head(s) = "0" THEN strip_zeros(Tail(s)) ELSE s

\* Whether a string of decimal digits denotes a value of at most u32::MAX
FitsU32(digits) ==
    LET d == strip_zeros(digits)
    IN \/ Len(d) < Len(U32MaxDigits)
       \/ Len(d) = Len(U32MaxDigits) /\ cmp_str(d, U32MaxDigits) # Greater

\* str::parse::<u32>(): <<n>> for Ok(n), << >> for Err.  One leading + is
\* accepted, the rest must be decimal digits, the value must fit 32 bits.
parse_u32(s) ==
    LET digits == IF s # <<>> /\ Head(s) = "+" THEN Tail(s) ELSE s
    IN IF digits = <<>> THEN <<>>
       ELSE IF \E i \in 1..Len(digits) : ~IsDigit(digits[i]) THEN <<>>
       ELSE IF ~FitsU32(digits) THEN <<>>
       ELSE <<DecimalValue(digits)>>

\* u32::to_string
RECURSIVE u32_to_string(_)
u32_to_string(n) ==
    IF n < 10 THEN <<Digits[n + 1]>>
    ELSE u32_to_string(n \div 10) \o <<Digits[(n % 10) + 1]>>

\* ------------------------------------------------------------------------
\* services/resolver.rs
\* ------------------------------------------------------------------------
\* Option::None, a value no string equals
None == <<"None">>

\* Slugs of catalog entries: one with an upper-case letter, two that share
\* the text before their first '-'
KeyPool == { <<"A">>, <<"b", "-", "1">>, <<"b", "-", "2">> }

\* Names a required_dependencies list may hold: catalog slugs, a slug in
\* another letter case, a name without its -version suffix
DepPool == { <<"A">>, <<"a">>, <<"b">>, <<"b", "-", "1">> }

\* Slugs of the catalogs without dependency cycles
DagKeys == << <<"p">>, <<"q">>, <<"r">>, <<"s">> >>

\* Installed records (slug, manifest_path as path components): a folder named
\* as the slug, a folder named otherwise, a manifest path without a folder
InstalledPool ==
    { [slug |-> <<"A">>, manifest_path |-> << <<"AddOns">>, <<"A">>, <<"A.txt">> >>],
      [slug |-> <<"x">>, manifest_path |-> << <<"AddOns">>, <<"B", "-", "1">>, <<"x.txt">> >>],
      [slug |-> <<"b">>, manifest_path |-> << <<"b.txt">> >>] }

\* PathBuf::parent().file_name(): the folder that holds the manifest
parent_file_name(path) == IF Len(path) < 2 THEN None ELSE path[Len(path) - 1]

\* installed_slugs, resolver.rs 75-76
installed_slugs_of(installed) == { to_lowercase(a.slug) : a \in installed }

\* installed_folders, resolver.rs 79-88
installed_folders_of(installed) ==
    { to_lowercase(parent_file_name(a.manifest_path)) :
        a \in { r \in installed : parent_file_name(r.manifest_path) # None } }

\* is_installed without the folder-name matches
is_installed_slug_only(slug, installed_slugs, installed_folders) ==
    LET slug_lower == to_lowercase(slug)
        base_slug == split_first(slug_lower, "-")
    IN  \/ slug_lower \in installed_slugs
        \/ \E s \in installed_slugs : starts_with(s, base_slug) \/ starts_with(base_slug, s)

\* is_installed, resolver.rs 203-233
is_installed(slug, installed_slugs, installed_folders) ==
    LET slug_lower == to_lowercase(slug)
        base_slug == split_first(slug_lower, "-")
    IN  \/ slug_lower \in installed_slugs
        \/ slug_lower \in installed_folders
        \/ \E s \in installed_slugs : starts_with(s, base_slug) \/ starts_with(base_slug, s)
        \/ \E f \in installed_folders : starts_with(f, base_slug) \/ starts_with(base_slug, f)

\* resolver.rs 247-251: the first key of the map's iteration that equals the
\* name case-insensitively
first_same_lower(order, slug_lower) ==
    LET hits == { i \in 1..Len(order) : to_lowercase(order[i]) = slug_lower }
    IN IF hits = {} THEN None
       ELSE order[CHOOSE i \in hits : \A j \in hits : i <= j]

\* resolver.rs 254-262: the first key of the map's iteration with the same
\* text before its first '-'
first_same_base(order, base_slug) ==
    LET hits == { i \in 1..Len(order) :
                    split_first(to_lowercase(order[i]), "-") = base_slug }
    IN IF hits = {} THEN None
       ELSE order[CHOOSE i \in hits : \A j \in hits : i <= j]

\* find_in_index, resolver.rs 236-265.  index_map is the HashMap of the
\* catalog; `order` is the order in which this run iterates over its keys.
find_in_index(slug, order) ==
    LET slug_lower == to_lowercase(slug)
        base_slug == split_first(slug_lower, "-")
    IN  IF \E i \in 1..Len(order) : order[i] = slug THEN slug
        ELSE IF first_same_lower(order, slug_lower) # None
             THEN first_same_lower(order, slug_lower)
             ELSE first_same_base(order, base_slug)

\* download_url of a catalog entry, resolver.rs 142-156
download_url_of(entry) ==
    IF entry.latest_release THEN <<"release_url">>
    ELSE IF entry.source_type = "github" THEN <<"zipball_url">>
    ELSE None

\* version of a resolved dependency, resolver.rs 159-163
version_of(entry) == IF entry.latest_release THEN "release_version" ELSE "branch-latest"

\* the push without the check for an entry of the same slug
PushResolvedUnchecked(resolved, key, entry, depth) ==
    Append(resolved, [slug |-> key, version |-> version_of(entry),
                      download_url |-> download_url_of(entry), depth |-> depth])

\* resolver.rs 165-175: push unless a dependency of that slug is resolved
PushResolved(resolved, key, entry, depth) ==
    IF \E i \in 1..Len(resolved) : resolved[i].slug = key
    THEN resolved
    ELSE Append(resolved, [slug |-> key, version |-> version_of(entry),
                           download_url |-> download_url_of(entry), depth |-> depth])

\* Vec::contains-guarded push, resolver.rs 133-135, 189-191, 195-197
PushUnique(list, x) ==
    IF \E i \in 1..Len(list) : list[i] = x THEN list ELSE Append(list, x)

\* resolve_recursive, resolver.rs 113-200.  st carries the two &mut
\* arguments (visited, result) and `expanded`, the log of the catalog
\* entries whose dependency list a call has iterated over.
RECURSIVE resolve_recursive(_, _, _, _, _, _, _)
resolve_recursive(deps, depth, index, order, installed_slugs, installed_folders, st) ==
    IF deps = <<>> THEN st
    ELSE
      LET dep_slug == Head(deps)
          slug_lower == to_lowercase(dep_slug)
      IN
      IF slug_lower \in st.visited
      THEN resolve_recursive(Tail(deps), depth, index, order,
                             installed_slugs, installed_folders, st)
      ELSE
        LET st1 == [st EXCEPT !.visited = @ \cup {slug_lower}]
            key == find_in_index(dep_slug, order)
        IN
        IF is_installed(slug_lower, installed_slugs, installed_folders)
        THEN resolve_recursive(Tail(deps), depth, index, order,
                 installed_slugs, installed_folders,
                 [st1 EXCEPT !.already_installed = PushUnique(@, dep_slug)])
        ELSE IF key # None /\ download_url_of(index[key]) # None
        THEN
          LET st2 == [st1 EXCEPT !.resolved = PushResolved(@, key, index[key], depth),
                                 !.expanded = Append(@, key)]
              st3 == resolve_recursive(index[key].required_dependencies, depth + 1,
                         index, order, installed_slugs, installed_folders, st2)
          IN resolve_recursive(Tail(deps), depth, index, order,
                               installed_slugs, installed_folders, st3)
        ELSE resolve_recursive(Tail(deps), depth, index, order,
                 installed_slugs, installed_folders,
                 [st1 EXCEPT !.unresolved = PushUnique(@, dep_slug)])

\* sort_by(|a, b| b.depth.cmp(&a.depth)), resolver.rs 107: a stable sort,
\* deepest first
RECURSIVE sort_by_depth_desc(_, _)
sort_by_depth_desc(resolved, d) ==
    IF d < 0 THEN <<>>
    ELSE SelectSeq(resolved, LAMBDA r : r.depth = d) \o sort_by_depth_desc(resolved, d - 1)

\* resolve_dependencies, resolver.rs 54-110
resolve_dependencies(slug, index, installed, order) ==
    LET empty == [resolved |-> <<>>, already_installed |-> <<>>, unresolved |-> <<>>,
                  visited |-> {}, expanded |-> <<>>]
    IN
    IF slug \notin DOMAIN index THEN empty
    ELSE
      LET st == resolve_recursive(index[slug].required_dependencies, 0, index, order,
                    installed_slugs_of(installed), installed_folders_of(installed),
                    [empty EXCEPT !.visited = {slug}, !.expanded = <<slug>>])
      IN [st EXCEPT !.resolved = sort_by_depth_desc(st.resolved, Len(st.resolved))]

\* ------------------------------------------------------------------------
\* utils/version.rs
\* ------------------------------------------------------------------------
PrefixLetters == {"v", "V", "r", "R"}

\* the prefix strip with the letter v alone
strip_prefix_v_only(trimmed) ==
    IF trimmed # <<>> /\ Head(trimmed) = "v" THEN Tail(trimmed) ELSE trimmed

\* version.rs 42-47: strip one leading v, V, r or R
strip_prefix(trimmed) ==
    IF trimmed # <<>> /\ Head(trimmed) \in PrefixLetters THEN Tail(trimmed) ELSE trimmed

\* version.rs 62-65: the components that parse as u32, in order
RECURSIVE parse_components(_)
parse_components(parts) ==
    IF parts = <<>> THEN <<>>
    ELSE parse_u32(Head(parts)) \o parse_components(Tail(parts))

\* Version::parse, version.rs 27-73.  prerelease is << >> for None and
\* <<tag>> for Some(tag).
Version_parse(version_str) ==
    LET trimmed == trim(version_str)
        cleaned == strip_prefix(trimmed)
        dash == find(cleaned, "-")
        plus == find(cleaned, "+")
        version_part == IF dash # 0 THEN SubSeq(cleaned, 1, dash - 1)
                        ELSE IF plus # 0 THEN SubSeq(cleaned, 1, plus - 1)
                        ELSE cleaned
        prerelease == IF dash # 0 THEN <<SubSeq(cleaned, dash + 1, Len(cleaned))>>
                      ELSE <<>>
    IN IF ends_with(trimmed, <<"-", "l", "a", "t", "e", "s", "t">>)
          \/ contains(trimmed, <<"-", "b", "r", "a", "n", "c", "h">>)
       THEN [components |-> <<>>, prerelease |-> <<>>, original |-> version_str,
             is_branch |-> TRUE]
       ELSE [components |-> parse_components(split(version_part, ".")),
             prerelease |-> prerelease, original |-> version_str, is_branch |-> FALSE]

\* the component loop with a missing component ranking below every number
RECURSIVE cmp_components_unpadded(_, _, _)
cmp_components_unpadded(a, b, i) ==
    IF i > Len(a) /\ i > Len(b) THEN Equal
    ELSE IF i > Len(a) THEN Less
    ELSE IF i > Len(b) THEN Greater
    ELSE IF a[i] # b[i] THEN cmp_int(a[i], b[i])
    ELSE cmp_components_unpadded(a, b, i + 1)

\* version.rs 98-107: the loop over 0..max_len, from index i on
RECURSIVE cmp_components(_, _, _)
cmp_components(a, b, i) ==
    IF i > Len(a) /\ i > Len(b) THEN Equal
    ELSE
      LET x == IF i <= Len(a) THEN a[i] ELSE 0
          y == IF i <= Len(b) THEN b[i] ELSE 0
      IN IF cmp_int(x, y) # Equal THEN cmp_int(x, y)
         ELSE cmp_components(a, b, i + 1)

\* the prerelease match with two tags never equal
cmp_prerelease_tags_less(a, b) ==
    IF a = <<>> /\ b # <<>> THEN Greater
    ELSE IF a # <<>> /\ b = <<>> THEN Less
    ELSE IF a # <<>> /\ b # <<>> THEN Less
    ELSE Equal

\* version.rs 111-116
cmp_prerelease(a, b) ==
    IF a = <<>> /\ b # <<>> THEN Greater
    ELSE IF a # <<>> /\ b = <<>> THEN Less
    ELSE IF a # <<>> /\ b # <<>> THEN cmp_str(a[1], b[1])
    ELSE Equal

\* Ord for Version::cmp, version.rs 88-117.  The arms of the match on
\* (is_branch, is_branch) at 91-96 are expressions without a return: their
\* value is dropped and control continues at line 98, so a branch version
\* is compared like any version with no components and no prerelease.
Version_cmp(self, other) ==
    IF cmp_components(self.components, other.components, 1) # Equal
    THEN cmp_components(self.components, other.components, 1)
    ELSE cmp_prerelease(self.prerelease, other.prerelease)

\* Version::is_newer_than, version.rs 76-78
is_newer_than(self, other) == Version_cmp(self, other) = Greater

\* is_update_available, version.rs 121-126
is_update_available(installed_str, available_str) ==
    is_newer_than(Version_parse(available_str), Version_parse(installed_str))

\* join(".") of the components, version.rs 139-144
RECURSIVE join_components(_)
join_components(components) ==
    IF Len(components) = 1 THEN u32_to_string(components[1])
    ELSE u32_to_string(Head(components)) \o <<".">> \o join_components(Tail(components))

\* normalize_version, version.rs 129-150
normalize_version(version) ==
    LET v == Version_parse(version)
    IN IF v.is_branch THEN version
       ELSE IF v.components = <<>> THEN version
       ELSE IF v.prerelease # <<>>
            THEN join_components(v.components) \o <<"-">> \o v.prerelease[1]
            ELSE join_components(v.components)

\* ------------------------------------------------------------------------
\* utils/zip.rs
\* ------------------------------------------------------------------------
\* Paths are sequences of components (Path::components): the root directory,
\* the parent directory, or a normal name
RootDir == <<"/">>

ParentDir == <<".", ".">>

\* ZipFile::enclosed_name as called at zip.rs 29-32, the walk from component
\* i on: -1 when the name is rejected, else the depth reached.  A root
\* component is rejected, a parent component is rejected only when it climbs
\* above the start of the name.
RECURSIVE enclosed_depth(_, _, _)
enclosed_depth(path, i, depth) ==
    IF i > Len(path) THEN depth
    ELSE IF path[i] = RootDir THEN -1
    ELSE IF path[i] = ParentDir
         THEN IF depth = 0 THEN -1 ELSE enclosed_depth(path, i + 1, depth - 1)
    ELSE enclosed_depth(path, i + 1, depth + 1)

\* zip.rs 29-32: << >> for None, <<path>> for Some(path), the name as it is
\* stored, not normalised
enclosed_name(path) == IF enclosed_depth(path, 1, 0) = -1 THEN <<>> ELSE <<path>>

\* Path::strip_prefix: << >> for Err, <<rest>> for Ok(rest)
strip_path_prefix(path, prefix) ==
    IF Len(prefix) <= Len(path) /\ SubSeq(path, 1, Len(prefix)) = prefix
    THEN <<SubSeq(path, Len(prefix) + 1, Len(path))>>
    ELSE <<>>

\* zip.rs 35-66: << >> when the entry is skipped, else <<adjusted_path>>.
\* extract_path is << >> for None and <<prefix>> for Some(prefix).
adjusted_path_of(enclosed, extract_path) ==
    IF extract_path # <<>>
    THEN IF Len(enclosed) < 2 THEN <<>>
         ELSE LET inner_path == Tail(enclosed)
              IN IF strip_path_prefix(inner_path, extract_path[1]) # <<>>
                 THEN strip_path_prefix(inner_path, extract_path[1])
                 ELSE IF inner_path = extract_path[1] THEN << <<>> >>
                 ELSE <<>>
    ELSE IF enclosed = <<>> THEN <<>>
         ELSE IF Len(enclosed) = 1 THEN << <<>> >>
         ELSE <<Tail(enclosed)>>

\* the pattern match without the rule for hidden names
matches_glob_no_hidden(name, pattern) ==
    \/ name = pattern
    \/ /\ starts_with(pattern, <<"*", ".">>)
       /\ ends_with(name, <<".">> \o SubSeq(pattern, 3, Len(pattern)))
    \/ /\ starts_with(pattern, <<"*">>)
       /\ Len(pattern) > 1
       /\ ends_with(name, Tail(pattern))

\* matches_glob_pattern, zip.rs 126-152
matches_glob_pattern(name, pattern) ==
    \/ name = pattern
    \/ pattern = <<".", "*">> /\ starts_with(name, <<".">>)
    \/ /\ starts_with(pattern, <<"*", ".">>)
       /\ ends_with(name, <<".">> \o SubSeq(pattern, 3, Len(pattern)))
    \/ /\ starts_with(pattern, <<"*">>)
       /\ Len(pattern) > 1
       /\ ends_with(name, Tail(pattern))

\* should_exclude, zip.rs 112-122
should_exclude(path, excludes) ==
    \E i \in 1..Len(path) : \E j \in 1..Len(excludes) :
        matches_glob_pattern(path[i], excludes[j])

\* The directory a relative path names, seen from target_dir: up levels
\* above it, then down the names.  target_dir.join(path) at zip.rs 78 is
\* handed to the file system as it is, which resolves each parent component.
RECURSIVE outpath_location(_, _)
outpath_location(path, at) ==
    IF path = <<>> THEN at
    ELSE IF Head(path) = ParentDir
         THEN outpath_location(Tail(path),
                 IF at.down = <<>> THEN [at EXCEPT !.up = @ + 1]
                 ELSE [at EXCEPT !.down = SubSeq(@, 1, Len(@) - 1)])
    ELSE outpath_location(Tail(path), [at EXCEPT !.down = Append(@, Head(path))])

target_dir == [up |-> 0, down |-> <<>>]

location_of(path) == outpath_location(path, target_dir)

\* fs::create_dir_all(target_dir.join(path)): the directories it makes, one
\* per leading part of the path; target_dir and the directories above it
\* exist
create_dir_all(path) ==
    { location_of(SubSeq(path, 1, k)) : k \in 1..Len(path) }
        \ { l \in { location_of(SubSeq(path, 1, k)) : k \in 1..Len(path) } : l.down = <<>> }

\* The effects of an extraction on the file system
no_effects ==
    [created |-> {}, written |-> {}, permissions_set |-> {}, extracted_paths |-> <<>>,
     failed |-> FALSE]

\* zip.rs 80-92 for a file entry: whether the write fails (the path names a
\* directory, or a leading part of it names a file)
file_create_fails(adjusted, fs) ==
    \/ location_of(adjusted).down = <<>>
    \/ adjusted[Len(adjusted)] = ParentDir
    \/ location_of(adjusted) \in fs.created
    \/ \E k \in 1..(Len(adjusted) - 1) : location_of(SubSeq(adjusted, 1, k)) \in fs.written

\* zip.rs 80-83 for a directory entry: whether the creation fails (a leading
\* part of the path, or the path, names a file)
dir_create_fails(adjusted, fs) ==
    \E k \in 1..Len(adjusted) : location_of(SubSeq(adjusted, 1, k)) \in fs.written

\* zip.rs 78-105: one entry that was not skipped
write_entry(entry, adjusted, fs) ==
    LET made == IF entry.is_dir THEN create_dir_all(adjusted)
                ELSE create_dir_all(SubSeq(adjusted, 1, Len(adjusted) - 1))
        fails == IF entry.is_dir THEN dir_create_fails(adjusted, fs)
                 ELSE file_create_fails(adjusted, fs)
    IN IF fails
       THEN [fs EXCEPT !.failed = TRUE,
                       !.created = IF entry.is_dir THEN @
                                   ELSE @ \cup { l \in made :
                                           \A k \in 1..(Len(adjusted) - 1) :
                                             location_of(SubSeq(adjusted, 1, k)) \notin fs.written }]
       ELSE [fs EXCEPT !.created = @ \cup made,
                       !.written = IF entry.is_dir THEN @ ELSE @ \cup {location_of(adjusted)},
                       !.permissions_set = IF entry.unix_mode
                                           THEN @ \cup {location_of(adjusted)} ELSE @,
                       !.extracted_paths = Append(@, adjusted)]

\* zip.rs 27-106: the loop over the entries from index i on; an error of the
\* file system ends the call
RECURSIVE extract_entries(_, _, _, _, _)
extract_entries(archive, i, extract_path, excludes, fs) ==
    IF i > Len(archive) \/ fs.failed THEN fs
    ELSE
      LET file == archive[i]
          enclosed == enclosed_name(file.name)
          adjusted == IF enclosed = <<>> THEN <<>>
                      ELSE adjusted_path_of(enclosed[1], extract_path)
      IN IF enclosed = <<>> \/ adjusted = <<>>
         THEN extract_entries(archive, i + 1, extract_path, excludes, fs)
         ELSE IF adjusted[1] = <<>> /\ ~file.is_dir
         THEN extract_entries(archive, i + 1, extract_path, excludes, fs)
         ELSE IF should_exclude(adjusted[1], excludes)
         THEN extract_entries(archive, i + 1, extract_path, excludes, fs)
         ELSE extract_entries(archive, i + 1, extract_path, excludes,
                              write_entry(file, adjusted[1], fs))

\* extract_archive_with_options, zip.rs 13-109
extract_archive_with_options(archive, extract_path, excludes) ==
    extract_entries(archive, 1, extract_path, excludes, no_effects)

\* ------------------------------------------------------------------------
\* services/downloader.rs
\* ------------------------------------------------------------------------
\* most sources of a catalog entry
MaxSources == 2
\* largest declared content length of a response
MaxContentLength == 2
\* largest chunk of a response body
MaxChunkLen == 2
\* most bytes of a response body
MaxBytes == 3

DotZip == <<".", "z", "i", "p">>

\* downloader.rs 62: the sources tried first
IsArchiveSource(source) == source.source_type = "github_archive"

\* downloader.rs 60-63
archive_sources_of(srcs) == SelectSeq(srcs, IsArchiveSource)

\* every source of another type is tried
tries_every_source(source) == TRUE

\* downloader.rs 82: whether a source of another type is tried
tries_source(source) == ends_with(source.url, DotZip)

\* downloader.rs 80-82: the first source at index j or later that the
\* second loop tries, 0 when there is none
RECURSIVE next_zip_source(_, _)
next_zip_source(srcs, j) ==
    IF j > Len(srcs) THEN 0
    ELSE IF ~IsArchiveSource(srcs[j]) /\ tries_source(srcs[j]) THEN j
    ELSE next_zip_source(srcs, j + 1)

no_candidate == [phase |-> "end", i |-> 0, url |-> <<>>, label |-> ""]

\* downloader.rs 66-104: the next download the function makes when its loops
\* stand at index i of the given phase; phase "end" when there is none left
next_candidate(srcs, fallback, phase, i) ==
    LET archive_sources == archive_sources_of(srcs)
        j == IF phase = "archive" THEN next_zip_source(srcs, 1)
             ELSE IF phase = "other" THEN next_zip_source(srcs, i)
             ELSE 0
    IN IF phase = "archive" /\ i <= Len(archive_sources)
       THEN [phase |-> "archive", i |-> i, url |-> archive_sources[i].url,
             label |-> archive_sources[i].source_type]
       ELSE IF j # 0
       THEN [phase |-> "other", i |-> j, url |-> srcs[j].url,
             label |-> srcs[j].source_type]
       ELSE IF (phase \in {"archive", "other"} \/ (phase = "fallback" /\ i = 1))
               /\ fallback # <<>>
       THEN [phase |-> "fallback", i |-> 1, url |-> fallback[1], label |-> "Fallback"]
       ELSE no_candidate

\* downloader.rs 72, 88, 101: the text kept in last_error
failure_message(label, e) == [label |-> label, reason |-> e]

all_sources_failed == [label |-> "All download sources failed", reason |-> ""]

\* the error of the call, always the general text
final_error_general(last_error) == all_sources_failed

\* downloader.rs 106-108
final_error(last_error) == IF last_error = <<>> THEN all_sources_failed ELSE last_error[1]

\* ------------------------------------------------------------------------
\* State
\* ------------------------------------------------------------------------
VARIABLES
    index,              \* resolver: the catalog, slug -> entry
    installed,          \* resolver: the installed records
    root,               \* resolver: the slug resolve_dependencies is called with
    results,            \* resolver: what each call of resolve_dependencies returned
    installed_version,  \* version: the installed version string
    available_version,  \* version: the candidate version string
    update_check,       \* version: << >>, or <<what is_update_available found>>
    version_text,       \* version: the string given to normalize_version
    normalized,         \* version: << >>, or <<what normalize_version returned>>
    parsed,             \* version: << >>, or <<what Version::parse returned>>
    archive,            \* zip: the entries of the archive, in order
    install_info,       \* zip: extract_path and excludes of the call
    extraction,         \* zip: << >>, or <<the effects of the extraction>>
    sources,            \* download: the download sources of the catalog entry
    fallback_url,       \* download: << >>, or <<the legacy download URL>>
    download,           \* download: where download_with_fallback stands
    fetch,              \* download: where the current download_file stands
    store,              \* commands: the installed-addon table, slug -> record
    disk,               \* commands: the folders that exist under the addon directory
    db,                 \* commands: 0, or the request that holds the lock of AppState.db
    requests,           \* commands: the invocations of commands, each with its position
    staging,            \* commands: the requests whose temporary download file exists
    cached_index,       \* commands: whether a fresh index is cached in the database
    extracted_dir,      \* find_addon_root: the extracted directory, as read_dir lists it
    addon_root,         \* find_addon_root: << >>, or <<what find_addon_root returned>>
    install_call,       \* installer: << >>, or <<the call of install_from_archive_with_info>>
    touched             \* installer: the paths the call removed, created or wrote

resolver_vars == <<index, installed, root, results>>

version_vars ==
    <<installed_version, available_version, update_check, version_text, normalized,
      parsed>>

zip_vars == <<archive, install_info, extraction>>

download_vars == <<sources, fallback_url, download, fetch>>

command_vars == <<store, disk, db, requests, staging, cached_index>>

find_root_vars == <<extracted_dir, addon_root>>

installer_vars == <<install_call, touched>>

vars == <<index, installed, root, results, installed_version, available_version,
          update_check, version_text, normalized, parsed, archive, install_info,
          extraction, sources, fallback_url, download, fetch,
          store, disk, db, requests, staging, cached_index, extracted_dir, addon_root,
          install_call, touched>>

\* The parts of the state a run on another component leaves empty
ResolverIdle == index = <<>> /\ installed = {} /\ root = <<>> /\ results = <<>>

VersionIdle ==
    /\ installed_version = <<>>
    /\ available_version = <<>>
    /\ update_check = <<>>
    /\ version_text = <<>>
    /\ normalized = <<>>
    /\ parsed = <<>>

ZipIdle == archive = <<>> /\ install_info = <<>> /\ extraction = <<>>

DownloadIdle == sources = <<>> /\ fallback_url = <<>> /\ download = <<>> /\ fetch = <<>>

CommandsIdle ==
    /\ store = <<>>
    /\ disk = {}
    /\ db = 0
    /\ requests = <<>>
    /\ staging = {}
    /\ cached_index = FALSE

FindRootIdle == extracted_dir = <<>> /\ addon_root = <<>>

InstallerIdle == install_call = <<>> /\ touched = {}

\* ------------------------------------------------------------------------
\* Dependency resolution: inputs and calls
\* ------------------------------------------------------------------------
\* The orders in which a HashMap over the keys K may iterate
IterationOrders(K) ==
    { f \in [1..Cardinality(K) -> K] : \A i, j \in 1..Cardinality(K) : f[i] = f[j] => i = j }

\* Lists of at most n distinct names of P
ListsOf(P, n) ==
    UNION { { f \in [1..m -> P] : \A i, j \in 1..m : f[i] = f[j] => i = j } : m \in 0..n }

\* Catalog entries; source_type only matters for an entry without a release
Entries ==
    { e \in [required_dependencies : ListsOf(DepPool, MaxDeps), latest_release : BOOLEAN,
             source_type : {"github", "other"}] :
        e.latest_release => e.source_type = "github" }

RECURSIVE SumLen(_, _)
SumLen(f, K) ==
    IF K = {} THEN 0
    ELSE LET k == CHOOSE x \in K : TRUE
         IN Len(f[k].required_dependencies) + SumLen(f, K \ {k})

\* Size of a catalog: dependency edges + entries without a release
CatalogSize(ix) ==
    SumLen(ix, DOMAIN ix) + Cardinality({ k \in DOMAIN ix : ~ix[k].latest_release })

Catalogs ==
    UNION { { ix \in [K -> Entries] : CatalogSize(ix) <= MaxInput } :
            K \in SUBSET KeyPool \ {{}} }

InitResolver ==
    /\ index \in Catalogs
    /\ installed \in { S \in SUBSET InstalledPool :
                          Cardinality(S) + CatalogSize(index) <= MaxInput }
    /\ root \in DOMAIN index
    /\ results = <<>>
    /\ VersionIdle
    /\ ZipIdle
    /\ DownloadIdle
    /\ CommandsIdle
    /\ FindRootIdle
    /\ InstallerIdle

\* Catalogs without cycles: the entry at position i of DagKeys requires only
\* entries at later positions
DagCatalogs ==
    { ix \in [ { DagKeys[i] : i \in 1..Len(DagKeys) } ->
               [required_dependencies :
                    ListsOf({ DagKeys[i] : i \in 1..Len(DagKeys) }, MaxDeps),
                latest_release : {TRUE}, source_type : {"github"}] ] :
        \A i \in 1..Len(DagKeys) :
            \A n \in 1..Len(ix[DagKeys[i]].required_dependencies) :
                \E j \in (i + 1)..Len(DagKeys) :
                    ix[DagKeys[i]].required_dependencies[n] = DagKeys[j] }

InitInstallOrder ==
    /\ index \in DagCatalogs
    /\ installed = {}
    /\ root \in DOMAIN index
    /\ results = <<>>
    /\ VersionIdle
    /\ ZipIdle
    /\ DownloadIdle
    /\ CommandsIdle
    /\ FindRootIdle
    /\ InstallerIdle

\* One call of resolve_dependencies (commands/addons.rs 517), on a HashMap
\* whose iteration order is this call's own
ResolveDependencies ==
    /\ Len(results) < MaxCalls
    /\ \E order \in IterationOrders(DOMAIN index) :
          results' = Append(results, resolve_dependencies(root, index, installed, order))
    /\ UNCHANGED <<index, installed, root>>
    /\ UNCHANGED version_vars
    /\ UNCHANGED zip_vars
    /\ UNCHANGED download_vars
    /\ UNCHANGED command_vars
    /\ UNCHANGED find_root_vars
    /\ UNCHANGED installer_vars

NextResolver == ResolveDependencies

SpecResolver == InitResolver /\ [][NextResolver]_vars

SpecInstallOrder == InitInstallOrder /\ [][NextResolver]_vars

\* ------------------------------------------------------------------------
\* Dependency resolution: properties
\* ------------------------------------------------------------------------
Calls == 1..Len(results)

Listed(list, x) == \E i \in 1..Len(list) : list[i] = x

NoDuplicates(list) == \A i, j \in 1..Len(list) : list[i] = list[j] => i = j

Slugs(resolved) == [i \in 1..Len(resolved) |-> resolved[i].slug]

\* The DependencyResult a call returned (resolver.rs 25-32)
DependencyResultOf(st) ==
    [resolved |-> st.resolved, already_installed |-> st.already_installed,
     unresolved |-> st.unresolved]

\* C1: the resolved list is a valid install order: when X and Y are both in
\* resolved and the catalog entry of X requires Y, then Y comes before X.
C1_ValidInstallOrder ==
    \A c \in Calls :
        LET res == results[c].resolved
        IN \A x, y \in 1..Len(res) :
              (x # y /\ Listed(index[res[x].slug].required_dependencies, res[y].slug))
                  => y < x

\* C2: resolved, alreadyInstalled and unresolved are pairwise disjoint by slug
\* and none of them holds the same slug twice.
C2_DisjointNoDuplicates ==
    \A c \in Calls :
        LET r == results[c]
            res == Slugs(r.resolved)
        IN /\ NoDuplicates(res)
           /\ NoDuplicates(r.already_installed)
           /\ NoDuplicates(r.unresolved)
           /\ \A i \in 1..Len(res) :
                 ~Listed(r.already_installed, res[i]) /\ ~Listed(r.unresolved, res[i])
           /\ \A i \in 1..Len(r.already_installed) :
                 ~Listed(r.unresolved, r.already_installed[i])

\* A call has returned a resolved entry that two dependency names led to:
\* the second push was suppressed
C2_Witness ==
    \E c \in Calls :
        /\ Len(results[c].resolved) >= 1
        /\ Len(results[c].expanded) > Len(results[c].resolved) + 1

\* C3: every slug is expanded at most once per resolution run: no catalog
\* entry has its dependency list walked twice by one call.
C3_ExpandedAtMostOnce ==
    \A c \in Calls :
        \A i, j \in 1..Len(results[c].expanded) :
            results[c].expanded[i] = results[c].expanded[j] => i = j

\* C4: no slug that matches an installed record's slug, or the folder name of
\* its manifest path, case-insensitively appears in resolved or unresolved.
C4_InstalledNeverResolved ==
    \A c \in Calls :
        LET r == results[c]
            names == installed_slugs_of(installed) \cup installed_folders_of(installed)
        IN /\ \A i \in 1..Len(r.resolved) : to_lowercase(r.resolved[i].slug) \notin names
           /\ \A i \in 1..Len(r.unresolved) : to_lowercase(r.unresolved[i]) \notin names

\* A call has classified a dependency that matches an installed folder name
\* as installed, and has resolved another one
C4_Witness ==
    \E c \in Calls :
        /\ \E i \in 1..Len(results[c].already_installed) :
              to_lowercase(results[c].already_installed[i]) \in installed_folders_of(installed)
        /\ Len(results[c].resolved) >= 1

\* C5: two calls with the same root, catalog and installed set return the
\* same DependencyResult.
C5_Deterministic ==
    \A c, d \in Calls : DependencyResultOf(results[c]) = DependencyResultOf(results[d])

\* ------------------------------------------------------------------------
\* Dependency resolution: names that differ after their first '-'
\* ------------------------------------------------------------------------
\* Catalog slugs: one with an upper-case letter, one with a suffix that is
\* not a version
MatchKeys == { <<"R">>, <<"l", "-", "x">> }

\* Dependency names: another addon of the same text before the first '-',
\* a name with a -version suffix, the first catalog slug in lower case
MatchDeps == { <<"l", "-", "y">>, <<"l", "-", "1">>, <<"r">> }

\* Installed records: a slug that only starts like the dependency names, and
\* a folder named as one of them
MatchInstalled ==
    { [slug |-> <<"l", "z">>,
       manifest_path |-> << <<"AddOns">>, <<"l", "z">>, <<"l", "z", ".txt">> >>],
      [slug |-> <<"q">>,
       manifest_path |-> << <<"AddOns">>, <<"L", "-", "1">>, <<"q.txt">> >>] }

MatchEntries ==
    { e \in [required_dependencies : ListsOf(MatchDeps, MaxDeps), latest_release : BOOLEAN,
             source_type : {"github", "other"}] :
        e.latest_release => e.source_type = "github" }

MatchCatalogs ==
    UNION { { ix \in [K -> MatchEntries] : CatalogSize(ix) <= MaxInput } :
            K \in SUBSET MatchKeys \ {{}} }

InitMatching ==
    /\ index \in MatchCatalogs
    /\ installed \in { S \in SUBSET MatchInstalled :
                          Cardinality(S) + CatalogSize(index) <= MaxInput }
    /\ root \in DOMAIN index
    /\ results = <<>>
    /\ VersionIdle
    /\ ZipIdle
    /\ DownloadIdle
    /\ CommandsIdle
    /\ FindRootIdle
    /\ InstallerIdle

SpecMatching == InitMatching /\ [][NextResolver]_vars

\* The position of the last '-' of s, or 0
RECURSIVE rfind(_, _)
rfind(s, c) == IF s = <<>> THEN 0 ELSE IF s[Len(s)] = c THEN Len(s) ELSE rfind(SubSeq(s, 1, Len(s) - 1), c)

IsVersionText(s) == s # <<>> /\ \A i \in 1..Len(s) : IsDigit(s[i]) \/ s[i] = "."

\* s without a trailing -version suffix such as -2.0
WithoutVersionSuffix(s) ==
    LET at == rfind(s, "-")
    IN IF at > 0 /\ IsVersionText(SubSeq(s, at + 1, Len(s)))
       THEN SubSeq(s, 1, at - 1) ELSE s

\* A dependency name matches a catalog slug: the same slug, the same in
\* lower case, or the same once the -version suffixes are stripped
MatchesEntry(dep, key) ==
    \/ dep = key
    \/ to_lowercase(dep) = to_lowercase(key)
    \/ WithoutVersionSuffix(to_lowercase(dep)) = WithoutVersionSuffix(to_lowercase(key))

InstalledNames == installed_slugs_of(installed) \cup installed_folders_of(installed)

\* A dependency name matches an installed addon: its slug or folder in any
\* letter case, or one a prefix of the other once the suffixes are stripped
MatchesInstalled(dep) ==
    \/ to_lowercase(dep) \in InstalledNames
    \/ \E n \in InstalledNames :
          LET a == WithoutVersionSuffix(to_lowercase(dep))
              b == WithoutVersionSuffix(n)
          IN starts_with(a, b) \/ starts_with(b, a)

ListedLower(list, x) == \E i \in 1..Len(list) : to_lowercase(list[i]) = to_lowercase(x)

RootDeps == index[root].required_dependencies

\* C22: a required dependency that is not installed and matches no catalog
\* entry, or whose entry has no download URL, is listed in unresolved, and
\* every resolved entry is matched by a dependency name of an expanded
\* entry: none is resolved for a name that only shares the text before its
\* first '-'.
C22_UnmatchedIsUnresolved ==
    \A c \in Calls :
        /\ \A i \in 1..Len(RootDeps) :
              LET dep == RootDeps[i]
              IN (/\ ~is_installed(dep, installed_slugs_of(installed),
                                   installed_folders_of(installed))
                  /\ \A k \in DOMAIN index :
                        MatchesEntry(dep, k) => download_url_of(index[k]) = None)
                 => ListedLower(results[c].unresolved, dep)
        /\ \A i \in 1..Len(results[c].resolved) :
              \E j \in 1..Len(results[c].expanded) :
                 LET deps == index[results[c].expanded[j]].required_dependencies
                 IN \E n \in 1..Len(deps) : MatchesEntry(deps[n], results[c].resolved[i].slug)

\* C23: a dependency is classified as already installed exactly when it
\* matches an installed slug or folder name, in any letter case or as a
\* prefix once the -version suffixes are stripped.
C23_InstalledExactlyWhenMatching ==
    \A c \in Calls :
        /\ \A i \in 1..Len(results[c].already_installed) :
              MatchesInstalled(results[c].already_installed[i])
        /\ \A i \in 1..Len(RootDeps) :
              MatchesInstalled(RootDeps[i])
                  => ListedLower(results[c].already_installed, RootDeps[i])

\* C28: the root addon never appears in its own resolved list, compared
\* case-insensitively.
C28_RootNotResolved ==
    \A c \in Calls :
        \A i \in 1..Len(results[c].resolved) :
            to_lowercase(results[c].resolved[i].slug) # to_lowercase(root)

\* ------------------------------------------------------------------------
\* Versions: inputs and calls
\* ------------------------------------------------------------------------
\* longest installed version string drawn from VersionChars
MaxVersionLen == 3
\* longest candidate version string drawn from VersionChars
MaxCandidateLen == 2
\* longest string given to normalize_version drawn from NormalizeChars
MaxNormalizeLen == 4

\* All strings over chars of length at most n
Strings(chars, n) == UNION { [1..m -> chars] : m \in 0..n }

VersionChars == {"0", "1", ".", "-"}

\* The version strings of the tests of version.rs (156-228), and strings with
\* a branch marker, build metadata, surrounding blanks, no number
SampleVersions ==
    { <<"1", ".", "0", ".", "0">>,
      <<"1", ".", "0", ".", "1">>,
      <<"0", ".", "0", ".", "1">>,
      <<"0", ".", "0", ".", "0">>,
      <<"1", ".", "0">>,
      <<"v", "1", ".", "0", ".", "0">>,
      <<"r", "1">>,
      <<"1", "-", "a">>,
      <<"1", ".", "0", ".", "0", "-", "a", "l", "p", "h", "a">>,
      <<"1", ".", "0", ".", "0", "-", "b", "e", "t", "a">>,
      <<"m", "a", "i", "n", "-", "l", "a", "t", "e", "s", "t">>,
      <<"m", "a", "s", "t", "e", "r", "-", "l", "a", "t", "e", "s", "t">>,
      <<"d", "e", "v", "-", "b", "r", "a", "n", "c", "h">>,
      <<"1", ".", "0", "+", "b">>,
      <<" ", "1", ".", "0", " ">>,
      <<"b", "e", "t", "a">> }

InstalledVersions == Strings(VersionChars, MaxVersionLen) \cup SampleVersions

AvailableVersions == Strings(VersionChars, MaxCandidateLen) \cup SampleVersions

InitVersion ==
    /\ ResolverIdle
    /\ ZipIdle
    /\ DownloadIdle
    /\ CommandsIdle
    /\ FindRootIdle
    /\ InstallerIdle
    /\ installed_version \in InstalledVersions
    /\ available_version \in AvailableVersions
    /\ update_check = <<>>
    /\ version_text = <<>>
    /\ normalized = <<>>
    /\ parsed = <<>>

\* The update check of commands/addons.rs 403: is_update_available on the
\* installed and the candidate version, with the ordering it rests on
CheckUpdate ==
    /\ update_check' =
          << [ordering |-> Version_cmp(Version_parse(available_version),
                                       Version_parse(installed_version)),
              update_available |->
                  is_update_available(installed_version, available_version)] >>
    /\ UNCHANGED <<installed_version, available_version, version_text, normalized,
                    parsed>>
    /\ UNCHANGED resolver_vars
    /\ UNCHANGED zip_vars
    /\ UNCHANGED download_vars
    /\ UNCHANGED command_vars
    /\ UNCHANGED find_root_vars
    /\ UNCHANGED installer_vars

NextVersion == CheckUpdate

SpecVersion == InitVersion /\ [][NextVersion]_vars

NormalizeChars == {"0", "1", ".", "-", "v", "R", " "}

NormalizeInputs ==
    Strings(NormalizeChars, MaxNormalizeLen) \cup
    { <<"m", "a", "i", "n", "-", "l", "a", "t", "e", "s", "t">>,
      <<"d", "e", "v", "-", "b", "r", "a", "n", "c", "h">>,
      <<"v", "1", ".", "2", ".", "3">>,
      <<"1", ".", "2", ".", "3", "-", "b", "e", "t", "a">> }

InitNormalize ==
    /\ ResolverIdle
    /\ ZipIdle
    /\ DownloadIdle
    /\ CommandsIdle
    /\ FindRootIdle
    /\ InstallerIdle
    /\ installed_version = <<>>
    /\ available_version = <<>>
    /\ update_check = <<>>
    /\ version_text \in NormalizeInputs
    /\ normalized = <<>>
    /\ parsed = <<>>

\* normalize_version on the string, and on the string behind each prefix
\* letter
NormalizeVersion ==
    /\ normalized' =
          << [plain |-> normalize_version(version_text),
              prefixed |-> [p \in PrefixLetters |->
                               normalize_version(<<p>> \o version_text)]] >>
    /\ UNCHANGED <<installed_version, available_version, update_check, version_text,
                    parsed>>
    /\ UNCHANGED resolver_vars
    /\ UNCHANGED zip_vars
    /\ UNCHANGED download_vars
    /\ UNCHANGED command_vars
    /\ UNCHANGED find_root_vars
    /\ UNCHANGED installer_vars

NextNormalize == NormalizeVersion

SpecNormalize == InitNormalize /\ [][NextNormalize]_vars

\* longest string given to Version::parse drawn from ParseChars
MaxParseLen == 3

ParseChars == {"1", ".", "-", "a"}

\* Build metadata appended to a version string
BuildSuffixes == { <<"+", "x">>, <<"+", "a", "-", "b">> }

ParseInputs ==
    Strings(ParseChars, MaxParseLen) \cup
    { <<"1", ".", "0", ".", "0">>,
      <<"1", ".", "0", ".", "0", "-", "b", "e", "t", "a">>,
      <<"m", "a", "i", "n", "-", "l", "a", "t", "e", "s", "t">> }

InitParse ==
    /\ ResolverIdle
    /\ ZipIdle
    /\ DownloadIdle
    /\ CommandsIdle
    /\ FindRootIdle
    /\ InstallerIdle
    /\ installed_version = <<>>
    /\ available_version = <<>>
    /\ update_check = <<>>
    /\ version_text \in ParseInputs
    /\ normalized = <<>>
    /\ parsed = <<>>

\* Version::parse on the string, and on the string with each build suffix
ParseVersion ==
    /\ parsed' =
          << [plain |-> Version_parse(version_text),
              with_build |-> [b \in BuildSuffixes |-> Version_parse(version_text \o b)]] >>
    /\ UNCHANGED <<installed_version, available_version, update_check, version_text,
                    normalized>>
    /\ UNCHANGED resolver_vars
    /\ UNCHANGED zip_vars
    /\ UNCHANGED download_vars
    /\ UNCHANGED command_vars
    /\ UNCHANGED find_root_vars
    /\ UNCHANGED installer_vars

NextParse == ParseVersion

SpecParse == InitParse /\ [][NextParse]_vars

\* C24: appending a +build suffix to a version string changes neither the
\* parsed numeric components nor the prerelease tag.
C24_BuildSuffixIgnored ==
    parsed # <<>> =>
        \A b \in BuildSuffixes :
            /\ parsed[1].with_build[b].components = parsed[1].plain.components
            /\ parsed[1].with_build[b].prerelease = parsed[1].plain.prerelease

\* ------------------------------------------------------------------------
\* Versions: properties
\* ------------------------------------------------------------------------
installed_ver == Version_parse(installed_version)

available_ver == Version_parse(available_version)

Reverse(ordering) ==
    IF ordering = Less THEN Greater ELSE IF ordering = Greater THEN Less ELSE Equal

Leq(a, b) == Version_cmp(a, b) # Greater

Transitive(a, b, c) == (Leq(a, b) /\ Leq(b, c)) => Leq(a, c)

\* Third versions for the transitivity of the order
ThirdVersions == { Version_parse(s) : s \in SampleVersions \cup Strings(VersionChars, 1) }

\* C6: the comparison is a total order on parsed versions: compare(a, a) is
\* equal, compare(a, b) is the reverse of compare(b, a), and less-or-equal is
\* transitive, over branch versions, versions of different component counts
\* and versions with and without a prerelease tag.
C6_TotalOrder ==
    update_check # <<>> =>
        /\ Version_cmp(installed_ver, installed_ver) = Equal
        /\ Version_cmp(available_ver, available_ver) = Equal
        /\ update_check[1].ordering = Reverse(Version_cmp(installed_ver, available_ver))
        /\ \A c \in ThirdVersions :
              /\ Version_cmp(c, installed_ver) = Reverse(Version_cmp(installed_ver, c))
              /\ Transitive(installed_ver, available_ver, c)
              /\ Transitive(available_ver, installed_ver, c)
              /\ Transitive(installed_ver, c, available_ver)
              /\ Transitive(available_ver, c, installed_ver)
              /\ Transitive(c, installed_ver, available_ver)
              /\ Transitive(c, available_ver, installed_ver)

\* A branch version has been compared with a version of several components
\* and a prerelease tag
C6_Witness ==
    /\ update_check # <<>>
    /\ installed_ver.is_branch
    /\ Len(available_ver.components) > 1
    /\ available_ver.prerelease # <<>>
    /\ update_check[1].ordering # Equal

\* The reference order, stated on its own: components padded with 0 to the
\* same length, the first differing position decides; then no tag above a
\* tag; then the tags as strings, byte by byte
Padded(components, n) == [i \in 1..n |-> IF i <= Len(components) THEN components[i] ELSE 0]

MaxOf(m, n) == IF m > n THEN m ELSE n

MinOf(m, n) == IF m < n THEN m ELSE n

NumbersGreater(a, b) ==
    LET n == MaxOf(Len(a), Len(b))
    IN \E i \in 1..n :
          /\ Padded(a, n)[i] > Padded(b, n)[i]
          /\ \A j \in 1..(i - 1) : Padded(a, n)[j] = Padded(b, n)[j]

NumbersEqual(a, b) ==
    \A i \in 1..MaxOf(Len(a), Len(b)) :
        Padded(a, MaxOf(Len(a), Len(b)))[i] = Padded(b, MaxOf(Len(a), Len(b)))[i]

TagLess(s, t) ==
    \E k \in 0..MinOf(Len(s), Len(t)) :
        /\ \A j \in 1..k : s[j] = t[j]
        /\ \/ k = Len(s) /\ k < Len(t)
           \/ k < Len(s) /\ k < Len(t) /\ Code(s[k + 1]) < Code(t[k + 1])

RanksGreater(a, b) ==
    \/ NumbersGreater(a.components, b.components)
    \/ /\ NumbersEqual(a.components, b.components)
       /\ \/ a.prerelease = <<>> /\ b.prerelease # <<>>
          \/ /\ a.prerelease # <<>>
             /\ b.prerelease # <<>>
             /\ TagLess(b.prerelease[1], a.prerelease[1])

RanksEqual(a, b) ==
    /\ NumbersEqual(a.components, b.components)
    /\ a.prerelease = b.prerelease

\* C7: for versions that are not branch versions, is_update_available is
\* true exactly when the candidate ranks strictly greater than the installed
\* version under the reference order; it is false for equal versions and
\* never true in both directions.
C7_UpdateIffStrictlyGreater ==
    update_check # <<>> =>
        /\ (~installed_ver.is_branch /\ ~available_ver.is_branch) =>
              /\ update_check[1].update_available
                    <=> RanksGreater(available_ver, installed_ver)
              /\ RanksEqual(available_ver, installed_ver)
                    => ~update_check[1].update_available
        /\ ~is_update_available(installed_version, installed_version)
        /\ ~is_update_available(available_version, available_version)
        /\ ~(/\ update_check[1].update_available
             /\ is_update_available(available_version, installed_version))

\* An update has been found from a version with a prerelease tag to a
\* version with more components, equal numbers after padding, and no tag
C7_Witness ==
    /\ update_check # <<>>
    /\ ~installed_ver.is_branch
    /\ ~available_ver.is_branch
    /\ installed_ver.components # <<>>
    /\ Len(installed_ver.components) < Len(available_ver.components)
    /\ NumbersEqual(installed_ver.components, available_ver.components)
    /\ installed_ver.prerelease # <<>>
    /\ update_check[1].update_available

\* C8: an installed branch version is reported as updatable to every
\* candidate that is not a branch version; a branch version is less than
\* every version that is not one and equal to every branch version.
C8_BranchAlwaysUpdatable ==
    update_check # <<>> =>
        /\ (installed_ver.is_branch /\ ~available_ver.is_branch) =>
              /\ update_check[1].update_available
              /\ update_check[1].ordering = Greater
              /\ Version_cmp(installed_ver, available_ver) = Less
        /\ (installed_ver.is_branch /\ available_ver.is_branch) =>
              update_check[1].ordering = Equal

\* Whether the string starts with neither a blank nor a prefix letter
Unprefixed(s) == s = <<>> \/ (Head(s) # " " /\ Head(s) \notin PrefixLetters)

\* C9: for all strings s and each prefix letter p in v, V, r, R,
\* normalize_version(p + s) = normalize_version(s).
C9_PrefixInvariant ==
    normalized # <<>> =>
        \A p \in PrefixLetters : normalized[1].prefixed[p] = normalized[1].plain

\* C9 as the code has it: the equation holds for every s that starts with
\* neither a blank nor a prefix letter and parses as a version that is not a
\* branch version and has a numeric component; for a branch version and for
\* a string without a numeric component normalize_version returns its
\* argument, so that the two results differ by the prefix letter.
C9_PrefixInvariantAmended ==
    normalized # <<>> =>
        \A p \in PrefixLetters :
            LET v == Version_parse(version_text)
            IN IF ~v.is_branch /\ v.components # <<>>
               THEN Unprefixed(version_text)
                       => normalized[1].prefixed[p] = normalized[1].plain
               ELSE /\ normalized[1].plain = version_text
                    /\ normalized[1].prefixed[p] = <<p>> \o version_text

\* A string with a number and a prerelease tag has been normalised to another
\* string, the same with and without the prefix letter
C9_Witness ==
    /\ normalized # <<>>
    /\ Unprefixed(version_text)
    /\ ~Version_parse(version_text).is_branch
    /\ Version_parse(version_text).components # <<>>
    /\ Version_parse(version_text).prerelease # <<>>
    /\ normalized[1].plain # version_text
    /\ normalized[1].prefixed["R"] = normalized[1].plain

\* ------------------------------------------------------------------------
\* Archive extraction: inputs and calls
\* ------------------------------------------------------------------------
\* most components of an entry name
MaxPathLen == 3
\* most entries of an archive
MaxEntries == 2

\* First components of an entry name: the archive root folder, a parent
\* component, the root of an absolute name
FirstComponents == { <<"r">>, ParentDir, RootDir }

\* Later components: a folder or file name, a parent component
LaterComponents == { <<"s">>, ParentDir }

EntryNames ==
    { <<>> } \cup
    { <<first>> \o rest : first \in FirstComponents,
                          rest \in Strings(LaterComponents, MaxPathLen - 1) }

\* Archive entries: the name, whether it is a directory, whether it carries
\* a unix mode
ZipEntries == [name : EntryNames, is_dir : BOOLEAN, unix_mode : BOOLEAN]

Archives == Strings(ZipEntries, MaxEntries)

\* InstallInfo (models/index.rs 59-70) as the extraction reads it; no
\* install_info is no extract_path and no excludes (zip.rs 23-25)
InstallInfos ==
    [extract_path : { <<>>, << << <<"s">> >> >> },
     excludes : { <<>>, << <<".", "*">> >> }]

InitExtract ==
    /\ ResolverIdle
    /\ VersionIdle
    /\ DownloadIdle
    /\ CommandsIdle
    /\ FindRootIdle
    /\ InstallerIdle
    /\ archive \in Archives
    /\ install_info \in InstallInfos
    /\ extraction = <<>>

\* One call of extract_archive_with_options (services/installer.rs 27, 45)
ExtractArchive ==
    /\ extraction' =
          <<extract_archive_with_options(archive, install_info.extract_path,
                                         install_info.excludes)>>
    /\ UNCHANGED <<archive, install_info>>
    /\ UNCHANGED resolver_vars
    /\ UNCHANGED version_vars
    /\ UNCHANGED download_vars
    /\ UNCHANGED command_vars
    /\ UNCHANGED find_root_vars
    /\ UNCHANGED installer_vars

NextExtract == ExtractArchive

SpecExtract == InitExtract /\ [][NextExtract]_vars

\* ------------------------------------------------------------------------
\* Archive extraction: properties
\* ------------------------------------------------------------------------
StrictlyUnderTargetDir(location) == location.up = 0 /\ location.down # <<>>

\* C10: every file or directory the extraction creates, writes or changes
\* the permissions of lies strictly under target_dir.
C10_ConfinedToTargetDir ==
    extraction # <<>> =>
        \A location \in extraction[1].created \cup extraction[1].written
                          \cup extraction[1].permissions_set :
            StrictlyUnderTargetDir(location)

\* ------------------------------------------------------------------------
\* Archive extraction with exclude patterns: inputs
\* ------------------------------------------------------------------------
\* most components of an entry name of an archive with excluded names
MaxExcludePathLen == 3
\* most entries of an archive with excluded names
MaxExcludeEntries == 1

\* Names below the archive root folder: a plain name, a hidden name, a name
\* with the extension psd, a name that ends in psd without the dot
ExcludeNames ==
    { <<"f">>, <<".", "g">>, <<"a", ".", "p", "s", "d">>, <<"p", "s", "d">> }

ExcludeEntryNames ==
    { << <<"r">> >> \o rest : rest \in Strings(ExcludeNames, MaxExcludePathLen - 1) }

ExcludeEntries == [name : ExcludeEntryNames, is_dir : BOOLEAN, unix_mode : {FALSE}]

PsdAndHidden == << <<"*", ".", "p", "s", "d">>, <<".", "*">> >>

\* The excludes of InstallInfo (models/index.rs 67-69): none, the pair of
\* the example, an exact name, a suffix pattern
ExcludeLists == { <<>>, PsdAndHidden, << <<"f">> >>, << <<"*", "s", "d">> >> }

InitExclude ==
    /\ ResolverIdle
    /\ VersionIdle
    /\ DownloadIdle
    /\ CommandsIdle
    /\ FindRootIdle
    /\ InstallerIdle
    /\ archive \in Strings(ExcludeEntries, MaxExcludeEntries)
    /\ install_info \in [extract_path : { <<>>, << << <<"f">> >> >> },
                         excludes : ExcludeLists]
    /\ extraction = <<>>

SpecExclude == InitExclude /\ [][NextExtract]_vars

\* ------------------------------------------------------------------------
\* Archive extraction with exclude patterns: properties
\* ------------------------------------------------------------------------
\* The pattern rules, stated on their own: the exact name; .* for a name
\* that starts with a dot; a star followed by a suffix (an extension with
\* its dot, or any other text) for a name that ends with the suffix
NameEndsWith(name, suffix) ==
    \E k \in 0..Len(name) : SubSeq(name, k + 1, Len(name)) = suffix

PatternMatches(name, pattern) ==
    \/ name = pattern
    \/ pattern = <<".", "*">> /\ name # <<>> /\ name[1] = "."
    \/ /\ Len(pattern) > 1
       /\ pattern[1] = "*"
       /\ NameEndsWith(name, SubSeq(pattern, 2, Len(pattern)))

Excluded(path, excludes) ==
    \E i \in 1..Len(path) : \E j \in 1..Len(excludes) :
        PatternMatches(path[i], excludes[j])

\* The path of an entry after the archive root folder, and the extract_path
\* when there is one, are taken off: << >> when the entry is not under them
RemappedPath(name) ==
    IF install_info.extract_path = <<>>
    THEN IF Len(name) >= 1 THEN <<Tail(name)>> ELSE <<>>
    ELSE IF Len(name) >= 2 /\ name[2] = install_info.extract_path[1][1]
         THEN <<SubSeq(name, 3, Len(name))>>
         ELSE <<>>

C25_RemappedAsSpecified ==
    (extraction # <<>> /\ ~extraction[1].failed) =>
        /\ \A n \in 1..Len(extraction[1].extracted_paths) :
              /\ extraction[1].extracted_paths[n] # <<>>
              /\ \E i \in 1..Len(archive) :
                    RemappedPath(archive[i].name) = <<extraction[1].extracted_paths[n]>>
        /\ \A i \in 1..Len(archive) :
              LET remapped == RemappedPath(archive[i].name)
              IN (/\ remapped # <<>>
                  /\ remapped[1] # <<>>
                  /\ ~Excluded(remapped[1], install_info.excludes))
                 => Listed(extraction[1].extracted_paths, remapped[1])
        /\ \A location \in extraction[1].created \cup extraction[1].written :
              location.down # <<>>

\* ------------------------------------------------------------------------
\* Download with fallback: inputs and steps
\* ------------------------------------------------------------------------
\* DownloadSource (models/index.rs 99-108): two types, two URLs that end in
\* .zip and one that does not
SourcePool ==
    [source_type : {"github_archive", "jsdelivr"},
     url : { <<"a", ".", "z", "i", "p">>, <<"b", ".", "z", "i", "p">>, <<"c">> }]

LegacyUrl == <<"l">>

fetch_idle == [status |-> "idle", total_size |-> 0, downloaded |-> 0, progress |-> <<>>,
               error |-> ""]

InitDownload ==
    /\ ResolverIdle
    /\ VersionIdle
    /\ ZipIdle
    /\ CommandsIdle
    /\ FindRootIdle
    /\ InstallerIdle
    /\ sources \in Strings(SourcePool, MaxSources)
    /\ fallback_url \in { <<>>, <<LegacyUrl>> }
    /\ download = [phase |-> "archive", i |-> 1, last_error |-> <<>>, attempted |-> <<>>,
                   result |-> <<>>]
    /\ fetch = fetch_idle

candidate == next_candidate(sources, fallback_url, download.phase, download.i)

\* download_file returns Err(e) to download_with_fallback, which keeps the
\* message and moves on (downloader.rs 71-73, 87-89, 100-102)
fetch_failed(e) ==
    /\ fetch' = [fetch EXCEPT !.status = "failed", !.error = e]
    /\ download' = [download EXCEPT
                       !.i = @ + 1,
                       !.last_error = <<failure_message(candidate.label, e)>>]

\* download_with_fallback takes the next URL and calls download_file, which
\* sends the request and creates the target file (downloader.rs 12-23);
\* either step may fail; a response declares a content length or none
SendRequest ==
    /\ download.result = <<>>
    /\ fetch.status # "streaming"
    /\ candidate.phase # "end"
    /\ \/ \E e \in {"send", "create"} :
             /\ fetch' = [fetch_idle EXCEPT !.status = "failed", !.error = e]
             /\ download' = [download EXCEPT
                                !.phase = candidate.phase,
                                !.i = candidate.i + 1,
                                !.attempted = Append(@, candidate.url),
                                !.last_error = <<failure_message(candidate.label, e)>>]
       \/ \E total_size \in 0..MaxContentLength :
             /\ fetch' = [fetch_idle EXCEPT !.status = "streaming",
                                            !.total_size = total_size]
             /\ download' = [download EXCEPT
                                !.phase = candidate.phase,
                                !.i = candidate.i,
                                !.attempted = Append(@, candidate.url)]
    /\ UNCHANGED <<sources, fallback_url>>
    /\ UNCHANGED resolver_vars
    /\ UNCHANGED version_vars
    /\ UNCHANGED zip_vars
    /\ UNCHANGED command_vars
    /\ UNCHANGED find_root_vars
    /\ UNCHANGED installer_vars

\* downloader.rs 26-35: a chunk arrives and is written; the code does not
\* relate the size of the chunks to the declared length
ReceiveChunk ==
    /\ fetch.status = "streaming"
    /\ \E len \in 1..MaxChunkLen :
          /\ fetch.downloaded + len <= MaxBytes
          /\ fetch' = [fetch EXCEPT
                          !.downloaded = @ + len,
                          !.progress = IF fetch.total_size > 0
                                       THEN Append(@, <<fetch.downloaded + len,
                                                        fetch.total_size>>)
                                       ELSE @]
    /\ UNCHANGED <<sources, fallback_url, download>>
    /\ UNCHANGED resolver_vars
    /\ UNCHANGED version_vars
    /\ UNCHANGED zip_vars
    /\ UNCHANGED command_vars
    /\ UNCHANGED find_root_vars
    /\ UNCHANGED installer_vars

\* downloader.rs 27-28: the stream or the write fails
ChunkError ==
    /\ fetch.status = "streaming"
    /\ \E e \in {"chunk", "write"} : fetch_failed(e)
    /\ UNCHANGED <<sources, fallback_url>>
    /\ UNCHANGED resolver_vars
    /\ UNCHANGED version_vars
    /\ UNCHANGED zip_vars
    /\ UNCHANGED command_vars
    /\ UNCHANGED find_root_vars
    /\ UNCHANGED installer_vars

\* downloader.rs 37-40 and 68-70, 84-86, 97-99: the stream ends; the flush
\* fails, or progress 1.0 is reported and both functions return Ok
StreamEnd ==
    /\ fetch.status = "streaming"
    /\ \/ fetch_failed("flush")
       \/ /\ fetch' = [fetch EXCEPT !.status = "ok", !.progress = Append(@, <<1, 1>>)]
          /\ download' = [download EXCEPT !.result = <<[ok |-> TRUE, error |-> <<>>]>>]
    /\ UNCHANGED <<sources, fallback_url>>
    /\ UNCHANGED resolver_vars
    /\ UNCHANGED version_vars
    /\ UNCHANGED zip_vars
    /\ UNCHANGED command_vars
    /\ UNCHANGED find_root_vars
    /\ UNCHANGED installer_vars

\* downloader.rs 106-108: no URL is left
ReturnError ==
    /\ download.result = <<>>
    /\ fetch.status # "streaming"
    /\ candidate.phase = "end"
    /\ download' = [download EXCEPT
                       !.result = <<[ok |-> FALSE,
                                     error |-> <<final_error(download.last_error)>>]>>]
    /\ UNCHANGED <<sources, fallback_url, fetch>>
    /\ UNCHANGED resolver_vars
    /\ UNCHANGED version_vars
    /\ UNCHANGED zip_vars
    /\ UNCHANGED command_vars
    /\ UNCHANGED find_root_vars
    /\ UNCHANGED installer_vars

NextDownload == SendRequest \/ ReceiveChunk \/ ChunkError \/ StreamEnd \/ ReturnError

SpecDownload == InitDownload /\ [][NextDownload]_vars

\* ------------------------------------------------------------------------
\* Download with fallback: properties
\* ------------------------------------------------------------------------
IsPrefix(s, t) == Len(s) <= Len(t) /\ SubSeq(t, 1, Len(s)) = s

Urls(srcs) == [k \in 1..Len(srcs) |-> srcs[k].url]

IsZipSourceOfOtherType(source) ==
    source.source_type # "github_archive" /\ NameEndsWith(source.url, DotZip)

\* The ranked list: the github_archive sources in listed order, then the
\* other sources whose URL ends in .zip in listed order, then the legacy URL
RankedUrls ==
    Urls(SelectSeq(sources, IsArchiveSource))
        \o Urls(SelectSeq(sources, IsZipSourceOfOtherType))
        \o (IF fallback_url = <<>> THEN <<>> ELSE <<fallback_url[1]>>)

Succeeded == download.result # <<>> /\ download.result[1].ok

Failed == download.result # <<>> /\ ~download.result[1].ok

\* C12: the URLs attempted so far are a prefix of the ranked list, and no
\* URL is attempted after an attempt has succeeded.
C12_RankedOrderStopAtSuccess ==
    /\ [](IsPrefix(download.attempted, RankedUrls))
    /\ [][fetch.status = "ok" => download'.attempted = download.attempted]_vars
    /\ [](Succeeded => fetch.status = "ok")

\* A download has succeeded at its second URL, the source listed first,
\* after the github_archive source listed second, with the legacy URL left
\* untried
C12_Witness ==
    /\ Succeeded
    /\ Len(download.attempted) = 2
    /\ Len(RankedUrls) > 2
    /\ Len(sources) = 2
    /\ ~IsArchiveSource(sources[1])
    /\ IsArchiveSource(sources[2])
    /\ download.attempted[2] = sources[1].url
    /\ sources[1].url # sources[2].url

\* C13: a Download error is returned only when every URL of the ranked list
\* has been attempted and has failed; its message is the failure of the last
\* URL attempted, and the general text only when none was attempted.
C13_ErrorAfterAllFailed ==
    Failed =>
        /\ download.attempted = RankedUrls
        /\ IF download.attempted = <<>>
           THEN download.result[1].error = <<all_sources_failed>>
           ELSE /\ fetch.status = "failed"
                /\ download.result[1].error[1].reason = fetch.error
                /\ download.result[1].error[1] # all_sources_failed

\* A download has failed after three URLs, the legacy URL last
C13_Witness ==
    /\ Failed
    /\ Len(download.attempted) = 3
    /\ fallback_url # <<>>
    /\ download.result[1].error[1].label = "Fallback"

MaxRequests == 2
MaxProgressEvents == 1

SlugPool == {"a", "b"}

FolderPool == {"A", "B"}

\* The versions an install is called with
VersionPool == {"v1", "v2"}

\* The name of the addon directory, and the slug get_installed_addons gives
\* an addon it imports: the lower-cased name of the parent of the scanned
\* path, which is the addon directory (addons.rs 71-78, scanner.rs 52)
AddOnsDir == "AddOns"

ScanSlug == "addons"

StoreSlugs == SlugPool \cup {ScanSlug}

InstallCommands == {"install_addon", "install_from_github"}

\* The path NamedTempFile::new gives request r, in the temporary directory
temp_path(r) == <<"tmp", r>>

\* addon_dir.join(target_folder), addon_dir.join(addon_name)
target_path(folder) == <<"AddOns", folder>>

\* window.emit("download-progress", DownloadProgress { status, .. })
emit(events, status) == Append(events, status)

emit_install_error(events) == emit(events, "failed")

\* What an error path emits before it returns: install_addon calls
\* emit_install_error, install_from_github returns with the ? operator
error_events(cmd, events) ==
    IF cmd = "install_addon" THEN emit_install_error(events) ELSE events

keep_conn(lock, r) == lock

\* drop(conn), or the end of the scope of the guard
drop_conn(lock, r) == IF lock = r THEN 0 ELSE lock

keep_temp_file(files, r) == files

\* temp_file goes out of scope when the command returns
drop_temp_file(files, r) == files \ {r}

\* INSERT ... ON CONFLICT(slug) DO UPDATE SET installed_version, updated_at:
\* a recorded slug takes the new version and keeps its manifest_path and
\* source_type. folder is the name of the parent of manifest_path
insert_installed(table, slug, folder, source, version) ==
    IF table[slug] # <<>>
    THEN [table EXCEPT ![slug] = <<[table[slug][1] EXCEPT !.version = version]>>]
    ELSE [table EXCEPT ![slug] =
            <<[folder |-> folder, source |-> source, version |-> version]>>]

delete_installed(table, slug) == [table EXCEPT ![slug] = <<>>]

\* installer::uninstall_addon: remove_dir_all when the path exists; with
\* the addon directory itself every folder in it goes
uninstall_addon(folders, folder) ==
    IF folder = AddOnsDir THEN {} ELSE folders \ {folder}

source_of(cmd) == IF cmd = "install_from_github" THEN "github" ELSE "index"

store_after_any_error(table, q) ==
    {insert_installed(table, q.slug, q.folder, source_of(q.cmd), q.version)}

\* The table after a step of an install failed: only insert_installed
\* writes, and it fails either in execute or in the read that follows it
store_after_error(table, q) ==
    IF q.pc = "insert"
    THEN {table, insert_installed(table, q.slug, q.folder, source_of(q.cmd), q.version)}
    ELSE {table}

\* The addon directory after a step of an install failed: the target
\* folder was removed before, and is created again or not
disk_after_error(folders, q) ==
    IF q.pc = "copy" THEN {folders, folders \cup {q.folder}} ELSE {folders}

\* Where a command stands once state.db.lock() returned the guard
after_lock(cmd, pc) ==
    CASE pc = "addon_dir" -> "get_setting"
      [] pc = "manifest" -> "insert"
      [] pc = "cache_lock" -> "update_cache"
      [] pc = "lock" /\ cmd = "uninstall_addon" -> "uninstall"
      [] pc = "lock" /\ cmd = "check_updates" -> "read_store"
      [] pc = "lock" /\ cmd = "get_installed_addons" -> "scan"
      [] OTHER -> "read_cache"

\* The steps of a command that can return an error
fallible(cmd) ==
    CASE cmd = "install_addon" ->
           {"temp_file", "download", "get_setting", "install", "copy", "manifest",
            "insert"}
      [] cmd = "install_from_github" ->
           {"release_info", "temp_file", "download", "get_setting", "install",
            "copy", "manifest", "insert"}
      [] cmd = "fetch_index" -> {"fetch"}
      [] OTHER -> {}

returned(q, ok, stage) ==
    [q EXCEPT !.pc = "returned", !.result = <<[ok |-> ok, stage |-> stage]>>]

\* ------------------------------------------------------------------------
\* Commands: inputs and steps

\* The arguments of an invocation. folder is the target_folder of the
\* install info, or the name of the manifest file in the archive; both
\* come from the caller and the archive, not from the slug
Invocations ==
    [cmd : {"install_addon"}, slug : SlugPool, folder : FolderPool,
     info : BOOLEAN, force : {FALSE}, version : VersionPool]
    \cup [cmd : {"install_from_github"}, slug : SlugPool, folder : FolderPool,
          info : {FALSE}, force : {FALSE}, version : VersionPool]
    \cup [cmd : {"uninstall_addon"}, slug : StoreSlugs, folder : {"A"},
          info : {FALSE}, force : {FALSE}, version : {"v1"}]
    \cup [cmd : {"get_installed_addons"}, slug : {"a"}, folder : {"A"},
          info : {FALSE}, force : {FALSE}, version : {"v1"}]
    \cup [cmd : {"check_updates"}, slug : {"a"}, folder : {"A"},
          info : {FALSE}, force : {FALSE}, version : {"v1"}]
    \cup [cmd : {"fetch_index"}, slug : {"a"}, folder : {"A"},
          info : {FALSE}, force : BOOLEAN, version : {"v1"}]

call(p) ==
    [cmd |-> p.cmd, slug |-> p.slug, folder |-> p.folder, info |-> p.info,
     force |-> p.force, version |-> p.version,
     pc |-> IF p.cmd \in InstallCommands THEN "start" ELSE "lock",
     events |-> <<>>, result |-> <<>>, written |-> {}]

empty_store == [s \in StoreSlugs |-> <<>>]

\* The store and the addon directory the requests start from: nothing
\* installed, or addon a installed in folder A, its folder present or not
Installations ==
    { [store |-> empty_store, disk |-> {}],
      [store |-> insert_installed(empty_store, "a", "A", "index", "v1"), disk |-> {"A"}],
      [store |-> insert_installed(empty_store, "a", "A", "index", "v1"), disk |-> {}] }

InitCommands ==
    /\ ResolverIdle
    /\ VersionIdle
    /\ ZipIdle
    /\ DownloadIdle
    /\ FindRootIdle
    /\ InstallerIdle
    /\ \E e \in Installations : store = e.store /\ disk = e.disk
    /\ db = 0
    /\ requests \in [1..MaxRequests -> {call(p) : p \in Invocations}]
    /\ staging = {}
    /\ cached_index = FALSE

Requests == DOMAIN requests

Others == <<index, installed, root, results, installed_version, available_version,
            update_check, version_text, normalized, parsed, archive, install_info,
            extraction, sources, fallback_url, download, fetch, extracted_dir,
            addon_root, install_call, touched>>

\* install_addon 149-157, install_from_github 193-201: the first event
EmitDownloading ==
    \E r \in Requests :
    LET q == requests[r] IN
    /\ q.cmd \in InstallCommands
    /\ q.pc = "start"
    /\ requests' = [requests EXCEPT ![r] =
          [q EXCEPT !.events = emit(q.events, "downloading"),
                    !.pc = IF q.cmd = "install_from_github"
                           THEN "release_info" ELSE "temp_file"]]
    /\ UNCHANGED <<store, disk, db, staging, cached_index>>
    /\ UNCHANGED Others

\* install_from_github: the release or branch URL was found
GetReleaseInfo ==
    \E r \in Requests :
    LET q == requests[r] IN
    /\ q.pc = "release_info"
    /\ requests' = [requests EXCEPT ![r] = [q EXCEPT !.pc = "temp_file"]]
    /\ UNCHANGED <<store, disk, db, staging, cached_index>>
    /\ UNCHANGED Others

\* NamedTempFile::new() succeeded
CreateTempFile ==
    \E r \in Requests :
    LET q == requests[r] IN
    /\ q.pc = "temp_file"
    /\ staging' = staging \cup {r}
    /\ requests' = [requests EXCEPT ![r] = [q EXCEPT !.pc = "download"]]
    /\ UNCHANGED <<store, disk, db, cached_index>>
    /\ UNCHANGED Others

\* download_file wrote a chunk to temp_path and called the progress callback
ReceiveProgress ==
    \E r \in Requests :
    LET q == requests[r] IN
    /\ q.pc = "download"
    /\ Len(q.events) < 1 + MaxProgressEvents
    /\ requests' = [requests EXCEPT ![r] =
          [q EXCEPT !.events = emit(q.events, "downloading"),
                    !.written = q.written \cup {temp_path(r)}]]
    /\ UNCHANGED <<store, disk, db, staging, cached_index>>
    /\ UNCHANGED Others

\* download_file returned Ok; the command emits the extracting event
DownloadDone ==
    \E r \in Requests :
    LET q == requests[r] IN
    /\ q.pc = "download"
    /\ requests' = [requests EXCEPT ![r] =
          [q EXCEPT !.events = emit(q.events, "extracting"),
                    !.written = q.written \cup {temp_path(r)},
                    !.pc = "addon_dir"]]
    /\ UNCHANGED <<store, disk, db, staging, cached_index>>
    /\ UNCHANGED Others

\* state.db.lock() returned: no other request holds the guard
AcquireLock ==
    \E r \in Requests :
    LET q == requests[r] IN
    /\ q.pc \in {"addon_dir", "manifest", "lock", "cache_lock"}
    /\ db = 0
    /\ db' = r
    /\ requests' = [requests EXCEPT ![r] = [q EXCEPT !.pc = after_lock(q.cmd, q.pc)]]
    /\ UNCHANGED <<store, disk, staging, cached_index>>
    /\ UNCHANGED Others

\* get_addon_path_from_state: get_setting, drop(conn), and the path is found
ReadSetting ==
    \E r \in Requests :
    LET q == requests[r] IN
    /\ q.pc = "get_setting"
    /\ db' = drop_conn(db, r)
    /\ requests' = [requests EXCEPT ![r] = [q EXCEPT !.pc = "install"]]
    /\ UNCHANGED <<store, disk, staging, cached_index>>
    /\ UNCHANGED Others

\* install_from_archive_with_info, install_from_archive: the archive is
\* usable and the target folder is removed if it exists
RemoveTarget ==
    \E r \in Requests :
    LET q == requests[r] IN
    /\ q.pc = "install"
    /\ disk' = disk \ {q.folder}
    /\ requests' = [requests EXCEPT ![r] = [q EXCEPT !.pc = "copy"]]
    /\ UNCHANGED <<store, db, staging, cached_index>>
    /\ UNCHANGED Others

\* ... and the target folder is created and filled
WriteTarget ==
    \E r \in Requests :
    LET q == requests[r] IN
    /\ q.pc = "copy"
    /\ disk' = disk \cup {q.folder}
    /\ requests' = [requests EXCEPT ![r] = [q EXCEPT !.pc = "manifest"]]
    /\ UNCHANGED <<store, db, staging, cached_index>>
    /\ UNCHANGED Others

\* insert_installed succeeded: the complete event, Ok(addon), and the guard
\* and the temporary file go out of scope
InsertInstalled ==
    \E r \in Requests :
    LET q == requests[r] IN
    /\ q.pc = "insert"
    /\ store' = insert_installed(store, q.slug, q.folder, source_of(q.cmd), q.version)
    /\ db' = drop_conn(db, r)
    /\ staging' = drop_temp_file(staging, r)
    /\ requests' = [requests EXCEPT ![r] =
          returned([q EXCEPT !.events = emit(q.events, "complete")], TRUE, "")]
    /\ UNCHANGED <<disk, cached_index>>
    /\ UNCHANGED Others

\* A step of a command failed and the command returns Err
Fail ==
    \E r \in Requests :
    LET q == requests[r] IN
    /\ q.pc \in fallible(q.cmd)
    /\ store' \in store_after_error(store, q)
    /\ disk' \in disk_after_error(disk, q)
    /\ db' = drop_conn(db, r)
    /\ staging' = drop_temp_file(staging, r)
    /\ requests' = [requests EXCEPT ![r] =
          returned([q EXCEPT !.events = error_events(q.cmd, q.events)], FALSE, q.pc)]
    /\ UNCHANGED cached_index
    /\ UNCHANGED Others

\* uninstall_addon, with the guard held from the lookup to the return
UninstallAddon ==
    \E r \in Requests :
    LET q == requests[r] IN
    /\ q.pc = "uninstall"
    /\ db' = drop_conn(db, r)
    /\ \/ /\ store[q.slug] = <<>>
          /\ requests' = [requests EXCEPT ![r] = returned(q, FALSE, "not_found")]
          /\ UNCHANGED <<store, disk>>
       \/ /\ store[q.slug] # <<>>
          /\ store[q.slug][1].folder \in disk
          /\ requests' = [requests EXCEPT ![r] = returned(q, FALSE, "remove_dir_all")]
          /\ UNCHANGED <<store, disk>>
       \/ /\ store[q.slug] # <<>>
          /\ disk' = uninstall_addon(disk, store[q.slug][1].folder)
          /\ store' = delete_installed(store, q.slug)
          /\ requests' = [requests EXCEPT ![r] = returned(q, TRUE, "")]
    /\ UNCHANGED <<staging, cached_index>>
    /\ UNCHANGED Others

\* The store after get_installed_addons found the folders scanned: an
\* addon is imported when the scan found one and no record has the addon
\* directory as the parent of its manifest_path (addons.rs 54-108). The
\* scanned path is the folder of the addon (scanner.rs 52), so the slug is
\* the name of the addon directory and the parent of the recorded path is
\* the addon directory itself
auto_import(table, scanned) ==
    IF scanned # {} /\ \A s \in StoreSlugs : table[s] # <<>> => table[s][1].folder # AddOnsDir
    THEN insert_installed(table, ScanSlug, AddOnsDir, "local", "unknown")
    ELSE table

\* get_installed_addons, with the guard held from the read to the return:
\* the addon directory is scanned and the untracked addons are imported
GetInstalledAddons ==
    \E r \in Requests :
    LET q == requests[r] IN
    /\ q.pc = "scan"
    /\ \E scanned \in SUBSET disk : store' = auto_import(store, scanned)
    /\ db' = drop_conn(db, r)
    /\ requests' = [requests EXCEPT ![r] = returned(q, TRUE, "")]
    /\ UNCHANGED <<disk, staging, cached_index>>
    /\ UNCHANGED Others

\* check_updates: the installed addons are read and the guard is dropped
ReadStore ==
    \E r \in Requests :
    LET q == requests[r] IN
    /\ q.pc = "read_store"
    /\ db' = drop_conn(db, r)
    /\ requests' = [requests EXCEPT ![r] =
          IF \E s \in StoreSlugs : store[s] # <<>> /\ store[s][1].source = "github"
          THEN [q EXCEPT !.pc = "fetch_release"]
          ELSE returned(q, TRUE, "")]
    /\ UNCHANGED <<store, disk, staging, cached_index>>
    /\ UNCHANGED Others

\* check_updates: get_github_release_info answered, or failed and is skipped
FetchRelease ==
    \E r \in Requests :
    LET q == requests[r] IN
    /\ q.pc = "fetch_release"
    /\ requests' = [requests EXCEPT ![r] = returned(q, TRUE, "")]
    /\ UNCHANGED <<store, disk, db, staging, cached_index>>
    /\ UNCHANGED Others

\* fetch_index: the cache and the index URL are read and the guard is dropped
ReadCache ==
    \E r \in Requests :
    LET q == requests[r] IN
    /\ q.pc = "read_cache"
    /\ db' = drop_conn(db, r)
    /\ requests' = [requests EXCEPT ![r] =
          IF ~q.force /\ cached_index
          THEN returned(q, TRUE, "")
          ELSE [q EXCEPT !.pc = "fetch"]]
    /\ UNCHANGED <<store, disk, staging, cached_index>>
    /\ UNCHANGED Others

\* fetch_index: the index was fetched and parsed
FetchIndex ==
    \E r \in Requests :
    LET q == requests[r] IN
    /\ q.pc = "fetch"
    /\ requests' = [requests EXCEPT ![r] = [q EXCEPT !.pc = "cache_lock"]]
    /\ UNCHANGED <<store, disk, db, staging, cached_index>>
    /\ UNCHANGED Others

\* fetch_index: update_cached_index under the guard taken again
UpdateCache ==
    \E r \in Requests :
    LET q == requests[r] IN
    /\ q.pc = "update_cache"
    /\ cached_index' = TRUE
    /\ db' = drop_conn(db, r)
    /\ requests' = [requests EXCEPT ![r] = returned(q, TRUE, "")]
    /\ UNCHANGED <<store, disk, staging>>
    /\ UNCHANGED Others

NextCommands ==
    \/ EmitDownloading
    \/ GetReleaseInfo
    \/ CreateTempFile
    \/ ReceiveProgress
    \/ DownloadDone
    \/ AcquireLock
    \/ ReadSetting
    \/ RemoveTarget
    \/ WriteTarget
    \/ InsertInstalled
    \/ Fail
    \/ UninstallAddon
    \/ GetInstalledAddons
    \/ ReadStore
    \/ FetchRelease
    \/ ReadCache
    \/ FetchIndex
    \/ UpdateCache

SpecCommands == InitCommands /\ [][NextCommands]_vars

\* ------------------------------------------------------------------------
\* Commands: properties

IsInstall(r) == requests[r].cmd \in InstallCommands

Returned(r) == requests[r].result # <<>>

ReturnedOk(r) == Returned(r) /\ requests[r].result[1].ok

ReturnedErr(r) == Returned(r) /\ ~requests[r].result[1].ok

Terminal == {"complete", "failed"}

Last(events) == events[Len(events)]

\* downloading ... downloading, then at most one extracting, then at most
\* one terminal status, which is failed or, after extracting, complete
InOrder(events) ==
    /\ events # <<>> => events[1] = "downloading"
    /\ \A k \in 1..(Len(events) - 1) :
          /\ events[k] \notin Terminal
          /\ events[k] = "downloading" =>
                events[k + 1] \in {"downloading", "extracting", "failed"}
          /\ events[k] = "extracting" => events[k + 1] \in Terminal

\* C15: the progress events of every install request (install_addon and
\* install_from_github) follow downloading, extracting, complete, with
\* failed only after a non-terminal status and nothing after a terminal
\* one; a request that returned an error has emitted failed as its last
\* event, and one that returned Ok has emitted complete as its last event.
C15_EventsFollowLifecycle ==
    \A r \in Requests :
        IsInstall(r) =>
            /\ InOrder(requests[r].events)
            /\ ReturnedErr(r) =>
                  /\ requests[r].events # <<>>
                  /\ Last(requests[r].events) = "failed"
            /\ ReturnedOk(r) =>
                  /\ requests[r].events # <<>>
                  /\ Last(requests[r].events) = "complete"

\* The failures of an install before the store is written: temp file
\* creation, download, addon directory lookup, extraction, manifest lookup
ListedStages == {"temp_file", "download", "get_setting", "install", "copy", "manifest"}

FailedAt(r, stages) == ReturnedErr(r) /\ requests[r].result[1].stage \in stages

\* C16: an install that fails in temp file creation, download, addon
\* directory lookup, extraction or manifest lookup leaves the store of
\* installed addons as it was: no step of an install request before
\* insert_installed changes the store, the step that returns the error included.
C16_FailedInstallKeepsStore ==
    [][\A r \in Requests :
          (/\ IsInstall(r)
           /\ requests'[r] # requests[r]
           /\ requests[r].pc # "insert") => store' = store]_vars

\* An install wrote its folder, failed at the manifest lookup, and its slug
\* has no record
C16_Witness ==
    \E r \in Requests :
        /\ IsInstall(r)
        /\ FailedAt(r, {"manifest"})
        /\ requests[r].folder \in disk
        /\ store[requests[r].slug] = <<>>

under_addon_dir(path) == path[1] = "AddOns"

\* C17: the downloaded bytes of an install are written only to the
\* temporary file of the request, which is outside the addon directory, and
\* that file no longer exists once the install has returned, with Ok or Err.
C17_StagingFileRemoved ==
    \A r \in Requests :
        IsInstall(r) =>
            /\ requests[r].written \subseteq {temp_path(r)}
            /\ \A path \in requests[r].written : ~under_addon_dir(path)
            /\ Returned(r) => r \notin staging

\* One install returned Ok and another returned Err after its download, and
\* no temporary file is left
C17_Witness ==
    \E r1, r2 \in Requests :
        /\ IsInstall(r1) /\ ReturnedOk(r1) /\ requests[r1].written = {temp_path(r1)}
        /\ IsInstall(r2) /\ FailedAt(r2, {"install", "copy", "manifest"})
        /\ requests[r2].written = {temp_path(r2)}
        /\ staging = {}

IsUninstall(r) == requests[r].cmd = "uninstall_addon"

\* C18: uninstall is idempotent: when uninstall_addon is applied twice to
\* the same addon and the first call returned Ok, the second call reports
\* no failure either (a remove_dir_all that fails on an existing folder set
\* aside), and an addon whose folder does not exist is uninstalled with Ok.
C18_UninstallIdempotent ==
    \A r1, r2 \in Requests :
        (/\ r1 # r2
         /\ IsUninstall(r1) /\ IsUninstall(r2)
         /\ requests[r1].slug = requests[r2].slug
         /\ ReturnedOk(r1)
         /\ Returned(r2))
        => \/ ReturnedOk(r2)
           \/ FailedAt(r2, {"remove_dir_all"})

NetworkOrExtraction ==
    {"release_info", "download", "install", "copy", "fetch_release", "fetch"}

\* C19: in every interleaving of commands, no command holds the lock of
\* the store while it performs a network fetch or an archive extraction.
C19_NoLockAcrossFetchOrExtraction ==
    \A r \in Requests : db = r => requests[r].pc \notin NetworkOrExtraction

\* One install extracts its archive, after its addon directory lookup under
\* the lock, while another request holds the lock to insert its record
C19_Witness ==
    \E r1, r2 \in Requests :
        /\ r1 # r2
        /\ requests[r1].pc = "copy"
        /\ requests[r2].pc = "insert"
        /\ db = r2

\* C20: two installs of distinct slugs that run concurrently never remove
\* or write the same destination folder, with install info (target_folder)
\* and without (the name of the manifest file).
C20_DistinctTargetFolders ==
    \A r1, r2 \in Requests :
        (/\ r1 # r2
         /\ IsInstall(r1) /\ IsInstall(r2)
         /\ requests[r1].slug # requests[r2].slug
         /\ requests[r1].pc = "copy"
         /\ requests[r2].pc = "copy")
        => target_path(requests[r1].folder) # target_path(requests[r2].folder)

\* C21: the store holds at most one record per slug (it is keyed by the
\* slug), and when an install of a slug returns Ok, the record of the slug
\* carries the version and the folder of the manifest of that install, also
\* when the slug was recorded before with another folder or source.
C21_ReinstallRecordsNewInstall ==
    [][\A r \in Requests :
          (/\ IsInstall(r)
           /\ requests[r].pc = "insert"
           /\ ReturnedOk(r)')
          => /\ store'[requests[r].slug] # <<>>
             /\ store'[requests[r].slug][1].version = requests[r].version
             /\ store'[requests[r].slug][1].folder = requests[r].folder]_vars

\* C29: an uninstall_addon that returns Ok removes nothing but the folder
\* recorded under its slug, and that folder is a folder in the addon
\* directory, not the addon directory itself, whatever installs, scans with
\* auto-import and uninstalls went before.
C29_UninstallRemovesOwnFolderOnly ==
    [][\A r \in Requests :
          (/\ IsUninstall(r)
           /\ requests[r].pc = "uninstall"
           /\ ReturnedOk(r)')
          => /\ store[requests[r].slug][1].folder # AddOnsDir
             /\ disk \ disk' \subseteq {store[requests[r].slug][1].folder}]_vars

\* ------------------------------------------------------------------------
\* utils/zip.rs: find_addon_root
\* ------------------------------------------------------------------------
\* is_example_dir, zip.rs 191-199
is_example_dir(name) ==
    \/ contains(to_lowercase(name), <<"e", "x", "a", "m", "p", "l", "e">>)
    \/ contains(to_lowercase(name), <<"_", "t", "e", "s", "t">>)
    \/ starts_with(name, <<"_">>)

\* zip.rs 172-181: the first subdirectory of the listing that is not an
\* example directory and holds a manifest; << >> when there is none
RECURSIVE first_sub_root(_, _)
first_sub_root(sub_entries, parent) ==
    IF sub_entries = <<>> THEN <<>>
    ELSE IF ~is_example_dir(Head(sub_entries).name) /\ Head(sub_entries).manifest
         THEN << <<parent, Head(sub_entries).name>> >>
         ELSE first_sub_root(Tail(sub_entries), parent)

\* zip.rs 163-185: the loop over the first-level directories in the order
\* of read_dir, each with its subdirectories before the next one
RECURSIVE first_root(_)
first_root(entries) ==
    IF entries = <<>> THEN <<>>
    ELSE IF is_example_dir(Head(entries).name) THEN first_root(Tail(entries))
    ELSE IF Head(entries).manifest THEN << <<Head(entries).name>> >>
    ELSE IF first_sub_root(Head(entries).dirs, Head(entries).name) # <<>>
         THEN first_sub_root(Head(entries).dirs, Head(entries).name)
         ELSE first_root(Tail(entries))

\* find_addon_root, zip.rs 156-188: << >> for None, <<path>> for Some(path),
\* the path as the names below extracted_dir
find_addon_root(dir) == IF dir.manifest THEN << <<>> >> ELSE first_root(dir.dirs)

\* ------------------------------------------------------------------------
\* find_addon_root: inputs and calls
\* ------------------------------------------------------------------------
\* most directories in the extracted directory
MaxDirs == 2
\* most directories in a first-level directory
MaxSubDirs == 1

\* Directory names: two plain names, a test folder, a name with a leading
\* underscore
DirNames == { <<"a">>, <<"b">>, <<"T", "e", "s", "t">>, <<"_", "a">> }

DistinctNames(listing) ==
    \A i, j \in 1..Len(listing) : listing[i].name = listing[j].name => i = j

\* What read_dir yields for a first-level directory: its subdirectories, in
\* the order of the file system, each holding a manifest or not
SubListings ==
    { l \in Strings([name : DirNames, manifest : BOOLEAN], MaxSubDirs) : DistinctNames(l) }

\* What read_dir yields for the extracted directory
TopListings ==
    { l \in Strings([name : DirNames, manifest : BOOLEAN, dirs : SubListings], MaxDirs) :
        DistinctNames(l) }

InitFindRoot ==
    /\ ResolverIdle
    /\ VersionIdle
    /\ ZipIdle
    /\ DownloadIdle
    /\ CommandsIdle
    /\ InstallerIdle
    /\ extracted_dir \in [manifest : BOOLEAN, dirs : TopListings]
    /\ addon_root = <<>>

\* One call of find_addon_root (services/installer.rs 48)
FindAddonRoot ==
    /\ addon_root' = <<find_addon_root(extracted_dir)>>
    /\ UNCHANGED extracted_dir
    /\ UNCHANGED resolver_vars
    /\ UNCHANGED version_vars
    /\ UNCHANGED zip_vars
    /\ UNCHANGED download_vars
    /\ UNCHANGED command_vars
    /\ UNCHANGED installer_vars

NextFindRoot == FindAddonRoot

SpecFindRoot == InitFindRoot /\ [][NextFindRoot]_vars

\* ------------------------------------------------------------------------
\* find_addon_root: properties
\* ------------------------------------------------------------------------
NotAfter(a, b) == cmp_str(a, b) \in {Less, Equal}

\* The first-level directories that may be returned
DepthOneCandidates ==
    { i \in 1..Len(extracted_dir.dirs) :
        ~is_example_dir(extracted_dir.dirs[i].name) /\ extracted_dir.dirs[i].manifest }

\* The second-level directories that may be returned, as paths
DepthTwoCandidates ==
    { <<extracted_dir.dirs[i].name, extracted_dir.dirs[i].dirs[j].name>> :
        <<i, j>> \in { p \in (1..MaxDirs) \X (1..MaxSubDirs) :
            /\ p[1] <= Len(extracted_dir.dirs)
            /\ p[2] <= Len(extracted_dir.dirs[p[1]].dirs)
            /\ ~is_example_dir(extracted_dir.dirs[p[1]].name)
            /\ ~is_example_dir(extracted_dir.dirs[p[1]].dirs[p[2]].name)
            /\ extracted_dir.dirs[p[1]].dirs[p[2]].manifest } }

\* C26: find_addon_root returns the extracted directory if it holds a
\* manifest, else the first by name of the eligible first-level directories
\* that hold a manifest, and a second-level directory, the first by name,
\* only when there is no such first-level directory.
C26_ShallowestFirstByName ==
    addon_root # <<>> =>
        LET found == addon_root[1]
        IN IF extracted_dir.manifest THEN found = << <<>> >>
           ELSE IF DepthOneCandidates # {}
           THEN /\ found # <<>>
                /\ Len(found[1]) = 1
                /\ \A i \in DepthOneCandidates :
                      NotAfter(found[1][1], extracted_dir.dirs[i].name)
           ELSE IF DepthTwoCandidates # {}
           THEN /\ found # <<>>
                /\ Len(found[1]) = 2
                /\ \A p \in DepthTwoCandidates :
                      \/ cmp_str(found[1][1], p[1]) = Less
                      \/ found[1][1] = p[1] /\ NotAfter(found[1][2], p[2])
           ELSE found = <<>>

IsExampleOrTest(name) ==
    \/ starts_with(name, <<"_">>)
    \/ contains(to_lowercase(name), <<"e", "x", "a", "m", "p", "l", "e">>)
    \/ contains(to_lowercase(name), <<"t", "e", "s", "t">>)

\* C27: find_addon_root never returns a directory whose name starts with an
\* underscore or contains example or test in any letter case, nor one
\* nested under such a directory.
C27_NoExampleOrTestDir ==
    (addon_root # <<>> /\ addon_root[1] # <<>>) =>
        \A k \in 1..Len(addon_root[1][1]) : ~IsExampleOrTest(addon_root[1][1][k])

\* ------------------------------------------------------------------------
\* services/installer.rs: install_from_archive_with_info
\* ------------------------------------------------------------------------
\* A path is the sequence of its components from the root of the file system.
\* The addon directory the command passes in (commands/addons.rs 203-213)
addon_dir == << <<"D">>, <<"A", "d", "d", "O", "n", "s">> >>

\* Path::is_absolute on a unix path
is_absolute(p) == starts_with(p, <<"/">>)

KeepComponent(c) == c # <<>> /\ c # <<".">>

\* Path::components: empty components and "." are dropped, ".." is kept
components(p) == SelectSeq(split(p, "/"), KeepComponent)

\* Path::join: an absolute argument replaces the base
Path_join(base, p) == IF is_absolute(p) THEN components(p) ELSE base \o components(p)

\* The directory the file system resolves a path to: ".." steps to the parent
RECURSIVE resolve_onto(_, _)
resolve_onto(done, rest) ==
    IF rest = <<>> THEN done
    ELSE IF Head(rest) = ParentDir
         THEN resolve_onto(IF done = <<>> THEN <<>> ELSE SubSeq(done, 1, Len(done) - 1),
                           Tail(rest))
         ELSE resolve_onto(Append(done, Head(rest)), Tail(rest))

\* installer.rs 16: target_path = addon_dir.join(&install_info.target_folder)
install_target_path(target_folder) == resolve_onto(<<>>, Path_join(addon_dir, target_folder))

\* The manifest the archive holds, written below the target (installer.rs 27)
ManifestFile == <<"m">>

\* ------------------------------------------------------------------------
\* install_from_archive_with_info: inputs and steps
\* ------------------------------------------------------------------------
\* longest targetFolder
MaxFolderLen == 4

\* A letter, the dot and the path separator
FolderChars == {"a", ".", "/"}

InitInstaller ==
    /\ ResolverIdle
    /\ VersionIdle
    /\ ZipIdle
    /\ DownloadIdle
    /\ CommandsIdle
    /\ FindRootIdle
    /\ \E f \in Strings(FolderChars, MaxFolderLen), present \in BOOLEAN :
          install_call = <<[target_folder |-> f, present |-> present, pc |-> "remove"]>>
    /\ touched = {}

\* target_path.exists(): the addon directory and its ancestors exist, any
\* other directory as the call finds it
target_exists(q) ==
    q.present \/ starts_with(addon_dir, install_target_path(q.target_folder))

InstallerUnchanged ==
    /\ UNCHANGED resolver_vars
    /\ UNCHANGED version_vars
    /\ UNCHANGED zip_vars
    /\ UNCHANGED download_vars
    /\ UNCHANGED command_vars
    /\ UNCHANGED find_root_vars

\* installer.rs 19-21: remove_dir_all of the target when it exists
RemoveExisting ==
    /\ install_call # <<>>
    /\ install_call[1].pc = "remove"
    /\ touched' = IF target_exists(install_call[1])
                  THEN touched \cup {[op |-> "remove",
                                      path |-> install_target_path(install_call[1].target_folder)]}
                  ELSE touched
    /\ install_call' = <<[install_call[1] EXCEPT !.pc = "create"]>>
    /\ InstallerUnchanged

\* installer.rs 24: create_dir_all of the target
CreateTargetDir ==
    /\ install_call # <<>>
    /\ install_call[1].pc = "create"
    /\ touched' = touched \cup {[op |-> "create",
                                 path |-> install_target_path(install_call[1].target_folder)]}
    /\ install_call' = <<[install_call[1] EXCEPT !.pc = "extract"]>>
    /\ InstallerUnchanged

\* installer.rs 27-36: the archive is extracted into the target, the
\* manifest is looked for, the target path is returned
ExtractToTarget ==
    /\ install_call # <<>>
    /\ install_call[1].pc = "extract"
    /\ touched' = touched \cup {[op |-> "write",
                                 path |-> Append(install_target_path(install_call[1].target_folder),
                                                 ManifestFile)]}
    /\ install_call' = <<[install_call[1] EXCEPT !.pc = "returned"]>>
    /\ InstallerUnchanged

\* installer.rs 20, 24, 27: an io error of a step returns at once
FailInstallStep ==
    /\ install_call # <<>>
    /\ install_call[1].pc \in {"remove", "create", "extract"}
    /\ install_call[1].pc = "remove" => target_exists(install_call[1])
    /\ install_call' = <<[install_call[1] EXCEPT !.pc = "returned"]>>
    /\ UNCHANGED touched
    /\ InstallerUnchanged

NextInstaller == RemoveExisting \/ CreateTargetDir \/ ExtractToTarget \/ FailInstallStep

SpecInstaller == InitInstaller /\ [][NextInstaller]_vars

\* ------------------------------------------------------------------------
\* install_from_archive_with_info: properties
\* ------------------------------------------------------------------------
\* The child folder of the addon directory a path lies in, << >> when the
\* path is not inside the addon directory
ChildFolderOf(path) ==
    IF Len(path) > Len(addon_dir) /\ starts_with(path, addon_dir)
    THEN <<path[Len(addon_dir) + 1]>>
    ELSE <<>>

\* C30: whatever the targetFolder, every path install_from_archive_with_info
\* removes, creates or writes lies inside one and the same child folder of
\* the addon directory.
C30_WritesInsideOneChildFolder ==
    \A o1, o2 \in touched :
        /\ ChildFolderOf(o1.path) # <<>>
        /\ ChildFolderOf(o1.path) = ChildFolderOf(o2.path)

====
